---------------------------- MODULE Spec2Model ----------------------------
(***************************************************************************)
(* A model of the render core of dsnet/godoc (internal/render/linkify.go). *)
(*                                                                         *)
(* Strings are sequences of characters; a character is a one-character     *)
(* string, except for the four values that have no TLA+ spelling:          *)
(*   "NUL"   the zero byte the code uses for "nothing here",               *)
(*   "BQ"    the backquote (byte 60),                                      *)
(*   "LDQUO" the rune U+201C (bytes E2 80 9C),                             *)
(*   "RDQUO" the rune U+201D (bytes E2 80 9D).                             *)
(* Offsets are 0-based as in Go: offset i of s is s[i+1].                  *)
(***************************************************************************)
EXTENDS Integers, Sequences, FiniteSets, TLC

VARIABLES
    line,               \* formatLineHTML: the line argument
    disableHotlinking,  \* Renderer.disableHotlinking
    hasIdr,             \* formatLineHTML: idr != nil
    lineOut,            \* formatLineHTML: the fragments appended to htmls
    lineLoop,           \* formatLineHTML: the locals of its scan loop
    linkLine,           \* parseLink: the line argument
    linkOut,            \* parseLink: the result
    docBlocks,          \* declHTML: the blocks docToBlocks(doc) returned
    extractLinks,       \* declHTML: the extractLinks argument
    docIdx,             \* declHTML: the number of blocks the loop has done
    inLinks,            \* declHTML: the local inLinks
    els,                \* declHTML: the local els
    rlinks,             \* Renderer.links
    docLines,           \* docToBlocks: the lines of the doc argument
    blocksOut,          \* docToBlocks: the result
    decl,               \* formatDeclHTML: the declaration (mutated in place)
    declOut,            \* formatDeclHTML: what the call computed
    limits,             \* rewriteDecl: maxStringSize and maxElements
    rewOut,             \* rewriteDecl: the results of successive calls
    exSrc,              \* codeHTML: the example, or its formatted code
    codeOut,            \* codeHTML: the result
    thr,                \* concurrent declHTML calls: the state of each
    root,               \* loadPackages: the package tree
    merged,             \* loadPackages: the packages merged so far
    resolved,           \* resolve: the argument and the result
    walked,             \* walk: the nodes visited and the result
    pc                  \* position of the call the behaviour makes

lineVars == <<line, disableHotlinking, hasIdr, lineOut, lineLoop>>
linkVars == <<linkLine, linkOut>>
docVars == <<docBlocks, extractLinks, docIdx, inLinks, els, rlinks>>
blockVars == <<docLines, blocksOut>>
declVars == <<decl, declOut>>
unitVars == <<limits, rewOut, exSrc, codeOut, thr>>
treeVars == <<root, merged, resolved, walked>>

vars == <<lineVars, linkVars, docVars, blockVars, declVars, unitVars, treeVars,
         pc>>

\* the parts of the state a behaviour does not use stay as they are here
LineIdle == /\ line = <<>> /\ disableHotlinking = FALSE /\ hasIdr = FALSE
            /\ lineOut = <<>> /\ lineLoop = <<>>
LinkIdle == linkLine = <<>> /\ linkOut = <<>>
DocIdle == /\ docBlocks = <<>> /\ extractLinks = FALSE /\ docIdx = 0
           /\ inLinks = FALSE /\ els = <<>> /\ rlinks = <<>>
BlocksIdle == docLines = <<>> /\ blocksOut = <<>>
DeclIdle == decl = <<>> /\ declOut = <<>>
UnitIdle == /\ limits = <<>> /\ rewOut = <<>> /\ exSrc = <<>>
            /\ codeOut = <<>> /\ thr = <<>>
TreeIdle == /\ root = <<>> /\ merged = <<>> /\ resolved = <<>>
            /\ walked = <<>>

-----------------------------------------------------------------------------
(* Generic string helpers (package strings).                               *)

Take(s, n) == SubSeq(s, 1, n)                 \* s[:n]
Drop(s, n) == SubSeq(s, n + 1, Len(s))        \* s[n:]
Slice(s, a, b) == SubSeq(s, a + 1, b)         \* s[a:b]
At(s, i) == s[i + 1]                          \* s[i]

\* strings.HasPrefix(s[i:], p)
HasPrefixAt(s, i, p) ==
    /\ i + Len(p) <= Len(s)
    /\ \A k \in 1..Len(p) : s[i + k] = p[k]

\* strings.IndexByte(s, c): the first offset of c in s, or -1
IndexByte(s, c) ==
    IF \E k \in 1..Len(s) : s[k] = c
    THEN (CHOOSE k \in 1..Len(s) : s[k] = c /\ \A j \in 1..(k - 1) : s[j] /= c) - 1
    ELSE -1

\* strings.LastIndexAny(s, chars): the last offset of a character of cs, or -1
LastIndexAny(s, cs) ==
    IF \E k \in 1..Len(s) : s[k] \in cs
    THEN (CHOOSE k \in 1..Len(s) :
              s[k] \in cs /\ \A j \in (k + 1)..Len(s) : s[j] \notin cs) - 1
    ELSE -1

\* strings.Count(s, c) for a one-character c
Count(s, c) == Cardinality({k \in 1..Len(s) : s[k] = c})

\* the offset after the longest run of characters of cs starting at offset i
RECURSIVE SpanWhile(_, _, _)
SpanWhile(s, i, cs) ==
    IF i < Len(s) /\ At(s, i) \in cs THEN SpanWhile(s, i + 1, cs) ELSE i

-----------------------------------------------------------------------------
(* Character classes of the regular expressions (linkify.go:35-55).        *)

Lower == {"a","b","c","d","e","f","g","h","i","j","k","l","m",
          "n","o","p","q","r","s","t","u","v","w","x","y","z"}
Upper == {"A","B","C","D","E","F","G","H","I","J","K","L","M",
          "N","O","P","Q","R","S","T","U","V","W","X","Y","Z"}
Digit == {"0","1","2","3","4","5","6","7","8","9"}
Letter == Lower \cup Upper

\* hostPart: [a-zA-Z0-9_@\-.\[\]:]
HostChar == Letter \cup Digit \cup {"_", "@", "-", ".", "[", "]", ":"}
\* pathPart, the closing class: [a-zA-Z0-9$'()*+&#=@~_/\-\[\]%]
PathChar == Letter \cup Digit \cup
            {"$", "'", "(", ")", "*", "+", "&", "#", "=", "@", "~", "_", "/",
             "-", "[", "]", "%"}
\* pathPart, the leading class: [.,:;?!]
PathPunct == {".", ",", ":", ";", "?", "!"}
\* identRx: [\pL_] and [\pL_0-9]
IdentStart == Letter \cup {"_"}
IdentCont == Letter \cup Digit \cup {"_"}
\* \s of RE2
SpaceRx == {" ", "\t", "\n", "\f", "\r"}

\* protoPart: the words of (https?|s?ftps?|file|gopher|mailto|nntp)
protoPart ==
    { <<"h","t","t","p">>, <<"h","t","t","p","s">>,
      <<"f","t","p">>, <<"s","f","t","p">>, <<"f","t","p","s">>,
      <<"s","f","t","p","s">>, <<"f","i","l","e">>,
      <<"g","o","p","h","e","r">>, <<"m","a","i","l","t","o">>,
      <<"n","n","t","p">> }


-----------------------------------------------------------------------------
(* matchRx = urlRx | rfcRx | qualIdentRx (linkify.go:35-60), with Go's     *)
(* leftmost-first semantics: the match starts at the least offset at which *)
(* an alternative matches, the earlier alternative wins there, and every   *)
(* repetition is greedy.  Each matcher returns the offset after the match, *)
(* or -1.                                                                  *)

SchemeSep == <<":", "/", "/">>

\* pathPart: ([.,:;?!]*[a-zA-Z0-9$'()*+&#=@~_/\-\[\]%])* from offset k;
\* p is the offset after the punctuation that follows k
RECURSIVE PathEnd(_, _)
PathStep(s, k, p) ==
    IF p < Len(s) /\ At(s, p) \in PathChar THEN PathEnd(s, p + 1) ELSE k

PathEnd(s, k) == PathStep(s, k, SpanWhile(s, k, PathPunct))

\* hostPart from offset h0 to offset h1, then pathPart
URLHost(s, h0, h1) == IF h1 = h0 THEN -1 ELSE PathEnd(s, h1)

\* protoPart and :// are the words ps at offset i
URLProto(s, i, ps) ==
    IF ps = {} THEN -1
    ELSE URLHost(s, i + Len(CHOOSE q \in ps : TRUE) + 3,
                 SpanWhile(s, i + Len(CHOOSE q \in ps : TRUE) + 3, HostChar))

\* urlRx at offset i
MatchURL(s, i) ==
    URLProto(s, i, {p \in protoPart : HasPrefixAt(s, i, p \o SchemeSep)})

\* \d+(\.\d+)* continued: the offset after the (\.\d+)* part from offset k
RECURSIVE DottedEnd(_, _)
DottedEnd(s, k) ==
    IF k < Len(s) /\ At(s, k) = "." /\ SpanWhile(s, k + 1, Digit) > k + 1
    THEN DottedEnd(s, SpanWhile(s, k + 1, Digit))
    ELSE k

\* \d{3,5} is greedy: of the digits from offset k to offset d it takes
\* five at most
CapDigits(k, d) == IF d - k > 5 THEN k + 5 ELSE d

DigitsEnd(s, k) == CapDigits(k, SpanWhile(s, k, Digit))

\* (,?\s+[Ss]ection\s+(\d+(\.\d+)*))? from offset k: the record of the
\* section group, ok = FALSE when the optional group does not take part.
\* c is the offset after the comma, w after the white space, w2 after the
\* white space that follows the word, d after the first digits.
NoSection(k) == [ok |-> FALSE, from |-> k, to |-> k]

SectionDigits(s, k, w2, d) ==
    IF d > w2 THEN [ok |-> TRUE, from |-> w2, to |-> DottedEnd(s, d)]
    ELSE NoSection(k)

SectionNumber(s, k, e, w2) ==
    IF w2 > e THEN SectionDigits(s, k, w2, SpanWhile(s, w2, Digit))
    ELSE NoSection(k)

SectionWord(s, k, c, w) ==
    IF /\ w > c
       /\ (\/ HasPrefixAt(s, w, <<"S","e","c","t","i","o","n">>)
           \/ HasPrefixAt(s, w, <<"s","e","c","t","i","o","n">>))
    THEN SectionNumber(s, k, w + 7, SpanWhile(s, w + 7, SpaceRx))
    ELSE NoSection(k)

SectionComma(s, k, c) == SectionWord(s, k, c, SpanWhile(s, c, SpaceRx))

SectionAt(s, k) ==
    SectionComma(s, k, IF k < Len(s) /\ At(s, k) = "," THEN k + 1 ELSE k)

\* rfcRx at offset i: the submatches, ok = FALSE when there is no match;
\* num is group 1 (the RFC number), sec is group 3 (the section number).
\* w is the offset after the white space, d after the number, sc the
\* section group.
NoRFC == [ok |-> FALSE, end |-> -1, num |-> <<>>, hasSec |-> FALSE, sec |-> <<>>]

RFCSection(s, w, d, sc) ==
    [ok |-> TRUE, end |-> sc.to, num |-> Slice(s, w, d),
     hasSec |-> sc.ok, sec |-> Slice(s, sc.from, sc.to)]

RFCDigits(s, w, d) ==
    IF d - w >= 3 THEN RFCSection(s, w, d, SectionAt(s, d)) ELSE NoRFC

RFCSpaces(s, i, w) ==
    IF w > i + 3 THEN RFCDigits(s, w, DigitsEnd(s, w)) ELSE NoRFC

RFCGroups(s, i) ==
    IF HasPrefixAt(s, i, <<"R", "F", "C">>)
    THEN RFCSpaces(s, i, SpanWhile(s, i + 3, SpaceRx))
    ELSE NoRFC

MatchRFC(s, i) == RFCGroups(s, i).end

\* identRx at offset i
IdentEnd(s, i) ==
    IF i < Len(s) /\ At(s, i) \in IdentStart
    THEN SpanWhile(s, i + 1, IdentCont) ELSE -1

\* qualIdentRx at offset i: identRx(\.identRx)*
RECURSIVE QualEnd(_, _)
QualEnd(s, k) ==
    IF k < Len(s) /\ At(s, k) = "." /\ IdentEnd(s, k + 1) >= 0
    THEN QualEnd(s, IdentEnd(s, k + 1)) ELSE k

MatchQualIdent(s, i) ==
    IF IdentEnd(s, i) >= 0 THEN QualEnd(s, IdentEnd(s, i)) ELSE -1

\* the alternation: the end of the first alternative that matches
FirstMatch(url, rfc, ident) ==
    IF url >= 0 THEN url ELSE IF rfc >= 0 THEN rfc ELSE ident

\* the alternation at offset i
MatchAt(s, i) == FirstMatch(MatchURL(s, i), MatchRFC(s, i), MatchQualIdent(s, i))

\* matchRx.FindStringIndex(s): <<m0, m1>>, or <<-1, -1>> for nil;
\* e is what the alternation gives at offset i
RECURSIVE FindFrom(_, _)
FindAt(s, i, e) == IF e >= 0 THEN <<i, e>> ELSE FindFrom(s, i + 1)

FindFrom(s, i) ==
    IF i >= Len(s) THEN <<-1, -1>> ELSE FindAt(s, i, MatchAt(s, i))

FindStringIndex(s) == FindFrom(s, 0)

-----------------------------------------------------------------------------
(* formatLineHTML (linkify.go:256-360, 696-706).                           *)

\* convertQuotes: the replacer turns two backquotes into U+201C and two
\* apostrophes into U+201D, left to right, without overlap.  "BQ" is the
\* backquote character (byte 60).
RECURSIVE convertQuotes(_)
convertQuotes(text) ==
    IF Len(text) = 0 THEN <<>>
    ELSE IF HasPrefixAt(text, 0, <<"BQ", "BQ">>)
         THEN <<"LDQUO">> \o convertQuotes(Drop(text, 2))
    ELSE IF HasPrefixAt(text, 0, <<"'", "'">>)
         THEN <<"RDQUO">> \o convertQuotes(Drop(text, 2))
    ELSE <<Head(text)>> \o convertQuotes(Tail(text))

\* the characters countQuotes looks for: the ASCII double quote, U+201C
\* and U+201D
QuoteChars == {"\"", "LDQUO", "RDQUO"}

\* countQuotes: n starts at -1, and the loop runs once for i = len(s) and
\* once more for every offset LastIndexAny finds below i
RECURSIVE countQuotesLoop(_, _, _)
countQuotesLoop(s, i, n) ==
    IF i >= 0 THEN countQuotesLoop(s, LastIndexAny(Take(s, i), QuoteChars), n + 1)
    ELSE n

countQuotes(s) == countQuotesLoop(s, Len(s), -1)

\* s[len(s)-1] and s[0] are bytes: of a typographic quote the code sees the
\* last byte (9C or 9D) and the first byte (E2) of its UTF-8 encoding
LastByte(s) ==
    LET c == s[Len(s)]
    IN  IF c = "LDQUO" THEN "0x9C" ELSE IF c = "RDQUO" THEN "0x9D" ELSE c

FirstByte(c) == IF c \in {"LDQUO", "RDQUO"} THEN "0xE2" ELSE c

\* "\x00 \t()[]*\n" and "\x00 \t()[]:;,.'\n"
validPrefixChars == {"NUL", " ", "\t", "(", ")", "[", "]", "*", "\n"}
validSuffixChars == {"NUL", " ", "\t", "(", ")", "[", "]", ":", ";", ",", ".", "'", "\n"}

validPrefix(lastChar) == lastChar \in validPrefixChars

\* a variant of validSuffix that also accepts a double quote
validSuffix_Quote(nextChar) == nextChar \in validSuffixChars \cup {"\""}

validSuffix(nextChar) == nextChar \in validSuffixChars

\* a variant of forbidLinking that ignores the quote count
forbidLinking_NoQuotes(lastChar, nextChar, numQuotes) ==
    \/ ~validPrefix(lastChar)
    \/ ~validSuffix(nextChar)

forbidLinking(lastChar, nextChar, numQuotes) ==
    \/ ~validPrefix(lastChar)
    \/ ~validSuffix(nextChar)
    \/ numQuotes % 2 /= 0

\* A fragment appended to htmls.  kind is "escaped" (safehtml.HTMLEscaped of
\* the text between matches), "plain" (HTMLEscaped of a match), "link"
\* (LinkTemplate) or "resolved" (idr.toHTML); at is the offset of the
\* fragment's text in the quote-converted line.
Fragment(kind, text, href, at) ==
    [kind |-> kind, text |-> text, href |-> href, at |-> at]

\* the first cut of the URL case: a closer that comes before the first opener
\* of its kind ends the word (linkify.go:299-306)
cutAt(word, i, j) == IF i >= 0 /\ i < j THEN Take(word, i) ELSE word

cutCloser(word, close, open) ==
    cutAt(word, IndexByte(word, close), IndexByte(word, open))

\* the balancing loops (linkify.go:310-317): m1 moves back to the last
\* bracket of line[:m1] while the counts differ, at most 10 times
RECURSIVE balanceLoop(_, _, _, _, _, _)
balanceLoop(ln, m0, m1, open, close, i) ==
    IF Count(Slice(ln, m0, m1), open) /= Count(Slice(ln, m0, m1), close) /\ i < 10
    THEN balanceLoop(ln, m0, LastIndexAny(Take(ln, m1), {open, close}),
                     open, close, i + 1)
    ELSE m1

\* a variant of urlEnd in which the corrections give up the whole match
urlEnd_Stuck(ln, m0, m1) == m0

\* the URL case: the final m1
urlEnd(ln, m0, m1) ==
    balanceLoop(ln, m0,
        balanceLoop(ln, m0,
            m0 + Len(cutCloser(cutCloser(Slice(ln, m0, m1), ")", "("), "]", "[")),
            "(", ")", 0),
        "[", "]", 0)

\* strings.FieldsFunc(word, c is no letter, no number and not '.')
RECURSIVE rfcFieldsOf(_, _)
rfcFieldsOf(word, cur) ==
    IF Len(word) = 0 THEN (IF cur = <<>> THEN <<>> ELSE <<cur>>)
    ELSE IF Head(word) \in Letter \cup Digit \cup {"."}
         THEN rfcFieldsOf(Tail(word), Append(cur, Head(word)))
    ELSE (IF cur = <<>> THEN <<>> ELSE <<cur>>) \o rfcFieldsOf(Tail(word), <<>>)

rfcBase == <<"h","t","t","p","s",":","/","/","r","f","c","-","e","d","i","t",
             "o","r",".","o","r","g","/","r","f","c","/","r","f","c">>
dotHTML == <<".","h","t","m","l">>
hashSection == <<"#","s","e","c","t","i","o","n","-">>

\* a variant of rfcFragments that never links to a section
rfcFragments_NoSection(word, at) ==
    IF Len(rfcFieldsOf(word, <<>>)) >= 2
    THEN <<Fragment("link", word,
                    rfcBase \o rfcFieldsOf(word, <<>>)[2] \o dotHTML, at)>>
    ELSE <<>>

\* a variant of rfcLinks that appends nothing for an RFC match without a
\* section
rfcLinks_SectionOnly(word, at, rfcFields) ==
    IF Len(rfcFields) >= 4
    THEN <<Fragment("link", word,
             rfcBase \o rfcFields[2] \o dotHTML \o hashSection \o rfcFields[4], at)>>
    ELSE <<>>

\* the RFC case (linkify.go:321-333): the fragments it appends
rfcLinks(word, at, rfcFields) ==
    IF Len(rfcFields) >= 4
    THEN <<Fragment("link", word,
             rfcBase \o rfcFields[2] \o dotHTML \o hashSection \o rfcFields[4], at)>>
    ELSE IF Len(rfcFields) >= 2
    THEN <<Fragment("link", word, rfcBase \o rfcFields[2] \o dotHTML, at)>>
    ELSE <<>>

rfcFragments(word, at) == rfcLinks(word, at, rfcFieldsOf(word, <<>>))

\* the URL case (linkify.go:296-319): the link of line[m0:e]
urlFragment(ln, m0, e, at) ==
    [m1 |-> e,
     out |-> <<Fragment("link", Slice(ln, m0, e), Slice(ln, m0, e), at)>>]

\* a variant of wordSwitch that delegates to the resolver whatever the
\* hotlinking setting
wordSwitch_Always(ln, word, m0, m1, at, lastChar, nextChar, numQuotes, noHot, idr) ==
    IF \E k \in 0..(Len(word) - 3) : HasPrefixAt(word, k, SchemeSep)
    THEN urlFragment(ln, m0, urlEnd(ln, m0, m1), at)
    ELSE IF /\ HasPrefixAt(word, 0, <<"R", "F", "C">>)
            /\ Len(word) > 3
            /\ word[4] \in SpaceRx
    THEN [m1 |-> m1, out |-> rfcFragments(word, at)]
    ELSE IF ~forbidLinking(lastChar, nextChar, numQuotes) /\ idr
    THEN [m1 |-> m1, out |-> <<Fragment("resolved", word, <<>>, at)>>]
    ELSE [m1 |-> m1, out |-> <<Fragment("plain", word, <<>>, at)>>]

\* the switch of linkify.go:295-338 for the match word = line[m0:m1]: the
\* fragments appended and the final m1
wordSwitch(ln, word, m0, m1, at, lastChar, nextChar, numQuotes, noHot, idr) ==
    IF \E k \in 0..(Len(word) - 3) : HasPrefixAt(word, k, SchemeSep)
    THEN urlFragment(ln, m0, urlEnd(ln, m0, m1), at)
    ELSE IF /\ HasPrefixAt(word, 0, <<"R", "F", "C">>)
            /\ Len(word) > 3
            /\ word[4] \in SpaceRx
    THEN [m1 |-> m1, out |-> rfcFragments(word, at)]
    ELSE IF ~forbidLinking(lastChar, nextChar, numQuotes) /\ ~noHot /\ idr
    THEN [m1 |-> m1, out |-> <<Fragment("resolved", word, <<>>, at)>>]
    ELSE [m1 |-> m1, out |-> <<Fragment("plain", word, <<>>, at)>>]

wordCase(ln, m0, m1, at, lastChar, nextChar, numQuotes, noHot, idr) ==
    wordSwitch(ln, Slice(ln, m0, m1), m0, m1, at, lastChar, nextChar,
               numQuotes, noHot, idr)

\* nextChar (linkify.go:281-284)
nextCharAt(ln, m1) == IF m1 < Len(ln) THEN FirstByte(At(ln, m1)) ELSE "NUL"

\* The scan loop of linkify.go:268-342 on the rest ln of the line; base is
\* the offset of ln in the converted line.  The stages of one iteration:
\* the match (loopMatch), the text before it (loopNonWord), the word
\* (loopWord), and line = line[m1:] (loopNext).
RECURSIVE formatLoop(_, _, _, _, _, _, _)
loopNext(ln, base, lastChar, numQuotes, htmls, noHot, idr, m0, c) ==
    formatLoop(Drop(ln, c.m1), base + c.m1, lastChar,
               numQuotes + countQuotes(Slice(ln, m0, c.m1)),
               htmls \o c.out, noHot, idr)

loopWord(ln, base, lastChar, numQuotes, htmls, noHot, idr, m0, m1) ==
    IF m1 > m0
    THEN loopNext(ln, base, lastChar, numQuotes, htmls, noHot, idr, m0,
                  wordCase(ln, m0, m1, base + m0, lastChar, nextCharAt(ln, m1),
                           numQuotes, noHot, idr))
    ELSE formatLoop(Drop(ln, m1), base + m1, lastChar, numQuotes, htmls,
                    noHot, idr)

loopNonWord(ln, base, lastChar, numQuotes, htmls, noHot, idr, m0, m1) ==
    IF m0 > 0
    THEN loopWord(ln, base, LastByte(Take(ln, m0)),
                  numQuotes + countQuotes(Take(ln, m0)),
                  Append(htmls, Fragment("escaped", Take(ln, m0), <<>>, base)),
                  noHot, idr, m0, m1)
    ELSE loopWord(ln, base, lastChar, numQuotes, htmls, noHot, idr, m0, m1)

loopMatch(ln, base, lastChar, numQuotes, htmls, noHot, idr, m) ==
    IF m[1] >= 0
    THEN loopNonWord(ln, base, lastChar, numQuotes, htmls, noHot, idr, m[1], m[2])
    ELSE loopNonWord(ln, base, lastChar, numQuotes, htmls, noHot, idr,
                     Len(ln), Len(ln))

formatLoop(ln, base, lastChar, numQuotes, htmls, noHot, idr) ==
    IF Len(ln) = 0 THEN htmls
    ELSE loopMatch(ln, base, lastChar, numQuotes, htmls, noHot, idr,
                   FindStringIndex(ln))

\* formatLineHTML(line, idr) of a Renderer with disableHotlinking = noHot
formatLineHTML(ln, noHot, idr) ==
    formatLoop(convertQuotes(ln), 0, "NUL", 0, <<>>, noHot, idr)

-----------------------------------------------------------------------------
(* The lines formatLineHTML is applied to: every concatenation of at most  *)
(* MaxTokens of these pieces of text.                                      *)

MaxTokens == 4

LineTokens ==
    << <<"h","t","t","p",":","/","/","a">>,
       <<"(">>, <<")">>, <<"[">>, <<"]">>,
       <<" ">>, <<"\"">>, <<"x">>,
       <<"R","F","C"," ","2","6","1","6">>,
       <<","," ","S","e","c","t","i","o","n"," ","3",".","1">>,
       <<"BQ">>, <<"'">> >>

RECURSIVE Flatten(_)
Flatten(ss) == IF Len(ss) = 0 THEN <<>> ELSE Head(ss) \o Flatten(Tail(ss))

LineOf(f) == Flatten([k \in DOMAIN f |-> LineTokens[f[k]]])

InitLine ==
    /\ \E n \in 0..MaxTokens :
          \E f \in [1..n -> 1..Len(LineTokens)] : line = LineOf(f)
    /\ disableHotlinking \in BOOLEAN
    /\ hasIdr \in BOOLEAN
    /\ lineOut = <<>>
    /\ lineLoop = <<>>
    /\ TreeIdle
    /\ LinkIdle /\ DocIdle /\ BlocksIdle /\ DeclIdle /\ UnitIdle
    /\ pc = "line"

\* one call of r.formatLineHTML(line, idr)
FormatLineHTML ==
    /\ pc = "line"
    /\ lineOut' = formatLineHTML(line, disableHotlinking, hasIdr)
    /\ pc' = "done"
    /\ UNCHANGED <<line, disableHotlinking, hasIdr, lineLoop>>
    /\ UNCHANGED <<linkVars, treeVars, docVars, blockVars, declVars, unitVars>>

NextLine == FormatLineHTML

SpecLine == InitLine /\ [][NextLine]_vars

-----------------------------------------------------------------------------
(* Properties of formatLineHTML.                                           *)

\* the line as the scan loop sees it
scanned == convertQuotes(line)

\* the number of quote characters in s, counted one by one
NumQuoteChars(s) == Cardinality({k \in 1..Len(s) : s[k] \in QuoteChars})

\* the fragments of kind knd
FragmentsOf(knd) == {k \in 1..Len(lineOut) : lineOut[k].kind = knd}

\* the byte just before offset i of the scanned line, NUL at its start,
\* and the byte at offset i, NUL at its end
ByteBefore(i) == IF i = 0 THEN "NUL" ELSE LastByte(Take(scanned, i))
ByteAt(i) == IF i >= Len(scanned) THEN "NUL" ELSE FirstByte(At(scanned, i))

\* the offset just after fragment k
EndOf(k) == lineOut[k].at + Len(lineOut[k].text)

\* every fragment carries the text of the scanned line at its offset
FragmentsInPlace ==
    \A k \in 1..Len(lineOut) :
        /\ EndOf(k) <= Len(scanned)
        /\ lineOut[k].text = Slice(scanned, lineOut[k].at, EndOf(k))

\* C3: an identifier is never handed to the resolver when the number of
\* quote characters (ASCII double quote, U+201C, U+201D) in the line text
\* before it is odd.
C3_QuoteBalance ==
    pc = "done" =>
        /\ FragmentsInPlace
        /\ \A k \in FragmentsOf("resolved") :
               NumQuoteChars(Take(scanned, lineOut[k].at)) % 2 = 0

\* C3 witness: with a resolver and hotlinking on, an identifier between
\* eligible characters stays plain text because an odd number of quote
\* characters precedes it.
C3_Witness ==
    /\ pc = "done" /\ hasIdr /\ ~disableHotlinking
    /\ \E k \in FragmentsOf("plain") :
           /\ ByteBefore(lineOut[k].at) \in {" ", "("}
           /\ ByteAt(EndOf(k)) \in {"NUL", " ", ")"}
           /\ NumQuoteChars(Take(scanned, lineOut[k].at)) % 2 = 1

\* the eligible characters as the claim C4 lists them
C4_ClaimedPrefix == {"NUL", " ", "\t", "(", "[", ")", "*", "\n"}
C4_ClaimedSuffix == {"NUL", " ", "\t", "(", "[", ")", ":", ";", ",", ".", "'", "\n"}

\* C4 as stated: an identifier is handed to the resolver only if the
\* character before it is one of NUL, space, tab, (, [, ), *, newline and
\* the character after it is one of NUL, space, tab, (, [, ), :, ;, comma,
\* ., quote, newline.
C4_AsStated ==
    pc = "done" =>
        \A k \in FragmentsOf("resolved") :
            /\ ByteBefore(lineOut[k].at) \in C4_ClaimedPrefix
            /\ ByteAt(EndOf(k)) \in C4_ClaimedSuffix

\* the last byte of the nearest text between matches before fragment k,
\* NUL when there is none
RECURSIVE BoundaryBefore(_)
BoundaryBefore(k) ==
    IF k <= 1 THEN "NUL"
    ELSE IF lineOut[k - 1].kind = "escaped" THEN LastByte(lineOut[k - 1].text)
    ELSE BoundaryBefore(k - 1)

\* C4 amended: an identifier is handed to the resolver only if the last
\* character of the nearest unmatched text before it (NUL when there is
\* none; this is the character just before the match unless the match
\* directly follows another match) is one of NUL, space, tab, (, [, ), ], *,
\* newline and the character after it is one of NUL, space, tab, (, [, ), ],
\* :, ;, comma, ., apostrophe, newline.
C4_Eligible ==
    pc = "done" =>
        \A k \in FragmentsOf("resolved") :
            /\ BoundaryBefore(k) \in C4_ClaimedPrefix \cup {"]"}
            /\ ByteAt(EndOf(k)) \in C4_ClaimedSuffix \cup {"]"}

\* C4 witness: an identifier directly after a closing square bracket and
\* directly before one is handed to the resolver.
C4_Witness ==
    /\ pc = "done"
    /\ \E k \in FragmentsOf("resolved") :
           /\ lineOut[k].at > 0
           /\ ByteBefore(lineOut[k].at) = "]"
           /\ ByteAt(EndOf(k)) = "]"

\* the link fragments made from a URL match
URLLinks ==
    {k \in FragmentsOf("link") : ~HasPrefixAt(lineOut[k].text, 0, <<"R", "F", "C">>)}

\* C5: the link of a URL match has the URL as text and as href, and holds
\* as many ( as ) and as many [ as ].
C5_Balanced ==
    pc = "done" =>
        \A k \in URLLinks :
            /\ lineOut[k].href = lineOut[k].text
            /\ Count(lineOut[k].text, "(") = Count(lineOut[k].text, ")")
            /\ Count(lineOut[k].text, "[") = Count(lineOut[k].text, "]")

\* the link fragments made from an RFC match
RFCLinks ==
    {k \in FragmentsOf("link") : HasPrefixAt(lineOut[k].text, 0, <<"R", "F", "C">>)}

\* C6: an RFC match is rendered as a link whose text is the match and
\* whose href ends in rfcN.html#section-M when the match names a section M
\* and in rfcN.html when it names none, N being the RFC number.
C6_RFCLink ==
    pc = "done" =>
        /\ FragmentsInPlace
        /\ \A k \in 1..Len(lineOut) :
               RFCGroups(scanned, lineOut[k].at).ok
                   => lineOut[k].kind = "link"
        /\ \A k \in RFCLinks :
               LET g == RFCGroups(scanned, lineOut[k].at)
               IN  /\ g.ok
                   /\ g.end = EndOf(k)
                   /\ lineOut[k].href =
                        rfcBase \o g.num \o dotHTML \o
                        (IF g.hasSec THEN hashSection \o g.sec ELSE <<>>)

\* C6 witness: a link to a section of an RFC has been made.
C6_Witness ==
    /\ pc = "done"
    /\ \E k \in RFCLinks :
           RFCGroups(scanned, lineOut[k].at).hasSec

-----------------------------------------------------------------------------
(* parseLink (linkify.go:135-152).                                         *)

\* the white space strings.TrimSpace removes, as far as it can be spelled
WhiteSpace == {" ", "\t", "\n", "\f", "\r"}

RECURSIVE TrimLeft(_)
TrimLeft(s) ==
    IF Len(s) > 0 /\ Head(s) \in WhiteSpace THEN TrimLeft(Tail(s)) ELSE s

RECURSIVE TrimRight(_)
TrimRight(s) ==
    IF Len(s) > 0 /\ s[Len(s)] \in WhiteSpace
    THEN TrimRight(Take(s, Len(s) - 1)) ELSE s

\* strings.TrimSpace
TrimSpace(s) == TrimRight(TrimLeft(s))

\* a variant of SplitN2 that cuts at the last comma
SplitN2_Last(s) ==
    LET i == LastIndexAny(s, {","})
    IN  IF i < 0 THEN <<s>> ELSE <<Take(s, i), Drop(s, i + 1)>>

\* strings.SplitN(s, ",", 2): s cut at its first comma, or s alone
SplitN2(s) ==
    LET i == IndexByte(s, ",")
    IN  IF i < 0 THEN <<s>> ELSE <<Take(s, i), Drop(s, i + 1)>>

\* the nil *Link
NilLink == [ok |-> FALSE, Text |-> <<>>, Href |-> <<>>]

parseLink(ln) ==
    IF ~HasPrefixAt(ln, 0, <<"-", " ">>) /\ ~HasPrefixAt(ln, 0, <<"-", "\t">>)
    THEN NilLink
    ELSE LET parts == SplitN2(Drop(ln, 2))
         IN  IF Len(parts) /= 2 THEN NilLink
             ELSE [ok |-> TRUE, Text |-> TrimSpace(parts[1]),
                   Href |-> TrimSpace(parts[2])]

\* parseLinks: the links of the lines that hold one, in order
RECURSIVE parseLinks(_)
parseLinks(lns) ==
    IF Len(lns) = 0 THEN <<>>
    ELSE LET link == parseLink(Head(lns))
         IN  (IF link.ok THEN <<link>> ELSE <<>>) \o parseLinks(Tail(lns))

\* The lines parseLink is applied to: every string of at most MaxLinkLen
\* of these characters.
MaxLinkLen == 5
LinkChars == {"-", " ", "\t", ",", "a"}

InitLink ==
    /\ linkLine \in UNION {[1..n -> LinkChars] : n \in 0..MaxLinkLen}
    /\ linkOut = <<>>
    /\ TreeIdle
    /\ LineIdle /\ DocIdle /\ BlocksIdle /\ DeclIdle /\ UnitIdle
    /\ pc = "link"

\* one call of parseLink(linkLine)
ParseLink ==
    /\ pc = "link"
    /\ linkOut' = parseLink(linkLine)
    /\ pc' = "done"
    /\ UNCHANGED <<linkLine, lineVars, treeVars, docVars, blockVars, declVars, unitVars>>

NextLink == ParseLink

SpecLink == InitLink /\ [][NextLink]_vars

\* t is s without the white space at its two ends
IsTrimOf(t, s) ==
    \E a \in 0..Len(s) : \E b \in a..Len(s) :
        /\ t = SubSeq(s, a + 1, b)
        /\ \A k \in 1..a : s[k] \in WhiteSpace
        /\ \A k \in (b + 1)..Len(s) : s[k] \in WhiteSpace
        /\ t /= <<>> => (t[1] \notin WhiteSpace /\ t[Len(t)] \notin WhiteSpace)

\* the line is a dash, a space or tab, and a remainder with a comma in it
IsLinkLine(ln) ==
    /\ Len(ln) >= 2
    /\ ln[1] = "-"
    /\ ln[2] \in {" ", "\t"}
    /\ \E k \in 3..Len(ln) : ln[k] = ","

\* C7: parseLink returns a Link exactly when the line is a dash, a space or
\* tab, and a remainder holding a comma; the text is the trimmed part before
\* the first comma and the href the trimmed part after it.
C7_ParseLink ==
    pc = "done" =>
        /\ linkOut.ok <=> IsLinkLine(linkLine)
        /\ ~linkOut.ok => linkOut = NilLink
        /\ linkOut.ok =>
             \E k \in 3..Len(linkLine) :
                 /\ linkLine[k] = ","
                 /\ \A j \in 3..(k - 1) : linkLine[j] /= ","
                 /\ IsTrimOf(linkOut.Text, SubSeq(linkLine, 3, k - 1))
                 /\ IsTrimOf(linkOut.Href, SubSeq(linkLine, k + 1, Len(linkLine)))

\* C7 witness: a link whose href holds a later comma has been returned.
C7_Witness ==
    /\ pc = "done"
    /\ linkOut.ok
    /\ linkOut.Text /= <<>>
    /\ \E k \in 1..Len(linkOut.Href) : linkOut.Href[k] = ","

-----------------------------------------------------------------------------
(* declHTML, the doc part (linkify.go:78-117, 154-162).                    *)
(* A block is a record: type is "paragraph", "preformat" or "heading",     *)
(* lines are the lines of a paragraph or preformat, title is the title of  *)
(* a heading.                                                              *)

Paragraph(lns) == [type |-> "paragraph", lines |-> lns, title |-> <<>>]
Preformat(lns) == [type |-> "preformat", lines |-> lns, title |-> <<>>]
Heading(title) == [type |-> "heading", lines |-> <<>>, title |-> title]

LinksTitle == <<"L", "i", "n", "k", "s">>

\* safehtml.HTMLEscaped("\n")
newline == Fragment("escaped", <<"\n">>, <<>>, 0)

\* linesToHTML: every line formatted and followed by a newline
RECURSIVE linesToHTML(_, _, _)
linesToHTML(lns, noHot, idr) ==
    IF Len(lns) = 0 THEN <<>>
    ELSE formatLineHTML(Head(lns), noHot, idr) \o <<newline>>
         \o linesToHTML(Tail(lns), noHot, idr)

\* badAnchorRx.ReplaceAllString(title, "_"): [^a-zA-Z0-9] becomes _
badAnchorReplace(title) ==
    [k \in 1..Len(title) |->
        IF title[k] \in Letter \cup Digit THEN title[k] ELSE "_"]

\* safehtml.IdentifierFromConstantPrefix("hdr", id)
hdrID(id) == <<"h", "d", "r", "-">> \o id

DocElement(isHeading, isPreformat, body, title, id) ==
    [IsHeading |-> isHeading, IsPreformat |-> isPreformat, Body |-> body,
     Title |-> title, ID |-> id]

\* The loop body of declHTML for one block.  st holds the locals inLinks
\* and els and the field r.links; idr is never nil in declHTML.
caseParagraph(blk, st, noHot) ==
    IF st.inLinks
    THEN [st EXCEPT !.links = @ \o parseLinks(blk.lines)]
    ELSE [st EXCEPT !.els = Append(@,
            DocElement(FALSE, FALSE, linesToHTML(blk.lines, noHot, TRUE), <<>>, <<>>))]

casePreformat(blk, st, noHot) ==
    IF st.inLinks
    THEN [st EXCEPT !.links = @ \o parseLinks(blk.lines)]
    ELSE [st EXCEPT !.els = Append(@,
            DocElement(FALSE, TRUE, linesToHTML(blk.lines, noHot, FALSE), <<>>, <<>>))]

\* a variant of caseHeading in which a heading does not leave the link mode
caseHeading_NoReset(blk, st, extract) ==
    IF extract /\ blk.title = LinksTitle
    THEN [st EXCEPT !.inLinks = TRUE]
    ELSE [st EXCEPT !.els = Append(@,
            DocElement(TRUE, FALSE, <<>>, blk.title,
                       hdrID(badAnchorReplace(blk.title))))]

caseHeading(blk, st, extract) ==
    IF extract /\ blk.title = LinksTitle
    THEN [st EXCEPT !.inLinks = TRUE]
    ELSE [st EXCEPT !.inLinks = FALSE,
                    !.els = Append(@,
            DocElement(TRUE, FALSE, <<>>, blk.title,
                       hdrID(badAnchorReplace(blk.title))))]

\* The blocks of a doc comment: at most MaxBlocks of these, the first of
\* them no heading.
MaxBlocks == 5

LinkLine == <<"-", " ", "a", ",", "b">>
TextLine == <<"x">>

BodyBlocks == {Paragraph(<<LinkLine, TextLine>>), Paragraph(<<TextLine>>),
               Preformat(<<LinkLine>>)}
HeadingBlocks == {Heading(LinksTitle), Heading(<<"A", " ", "b">>)}

BlockSeqs ==
    {<<>>} \cup
    UNION { {<<b>> \o t : b \in BodyBlocks,
                          t \in [1..n -> BodyBlocks \cup HeadingBlocks]} :
            n \in 0..(MaxBlocks - 1) }

InitDoc ==
    /\ docBlocks \in BlockSeqs
    /\ extractLinks \in BOOLEAN
    /\ docIdx = 0
    /\ inLinks = FALSE
    /\ els = <<>>
    /\ rlinks = <<>>
    /\ TreeIdle
    /\ LineIdle /\ LinkIdle /\ BlocksIdle /\ DeclIdle /\ UnitIdle
    /\ pc = "doc"

docState == [inLinks |-> inLinks, els |-> els, links |-> rlinks]

\* the loop takes the next block
TakeBlock(type) ==
    /\ pc = "doc"
    /\ docIdx < Len(docBlocks)
    /\ docBlocks[docIdx + 1].type = type
    /\ docIdx' = docIdx + 1
    /\ UNCHANGED <<docBlocks, extractLinks, pc>>
    /\ UNCHANGED <<lineVars, linkVars, treeVars, blockVars, declVars, unitVars>>

SetDocState(st) ==
    /\ inLinks' = st.inLinks
    /\ els' = st.els
    /\ rlinks' = st.links

DeclHTMLParagraph ==
    /\ TakeBlock("paragraph")
    /\ SetDocState(caseParagraph(docBlocks[docIdx + 1], docState, disableHotlinking))

DeclHTMLPreformat ==
    /\ TakeBlock("preformat")
    /\ SetDocState(casePreformat(docBlocks[docIdx + 1], docState, disableHotlinking))

DeclHTMLHeading ==
    /\ TakeBlock("heading")
    /\ SetDocState(caseHeading(docBlocks[docIdx + 1], docState, extractLinks))

\* the loop is over: out.Doc is made of els
DeclHTMLReturn ==
    /\ pc = "doc"
    /\ docIdx = Len(docBlocks)
    /\ pc' = "done"
    /\ UNCHANGED <<docVars, lineVars, linkVars, treeVars, blockVars, declVars, unitVars>>

NextDoc ==
    \/ DeclHTMLParagraph
    \/ DeclHTMLPreformat
    \/ DeclHTMLHeading
    \/ DeclHTMLReturn

SpecDoc == InitDoc /\ [][NextDoc]_vars

\* block i is a heading titled "Links"
IsLinksHeading(i) ==
    docBlocks[i].type = "heading" /\ docBlocks[i].title = LinksTitle

\* block i is no heading and the last heading before it is titled "Links"
AfterLinksHeading(i) ==
    /\ docBlocks[i].type /= "heading"
    /\ \E j \in 1..(i - 1) :
           /\ IsLinksHeading(j)
           /\ \A k \in (j + 1)..(i - 1) : docBlocks[k].type /= "heading"

\* the blocks among the first n that are not in the set skip, in order
RECURSIVE KeptBlocks(_, _)
KeptBlocks(n, skip) ==
    IF n = 0 THEN <<>>
    ELSE KeptBlocks(n - 1, skip) \o (IF n \in skip THEN <<>> ELSE <<n>>)

\* the number of lines of the blocks of the set among the first n that
\* parse as links
RECURSIVE NumLinkLines(_, _)
NumLinkLines(n, from) ==
    IF n = 0 THEN 0
    ELSE NumLinkLines(n - 1, from) +
         (IF n \in from
          THEN Cardinality({k \in 1..Len(docBlocks[n].lines) :
                               IsLinkLine(docBlocks[n].lines[k])})
          ELSE 0)

\* els holds one element for every block done so far outside the set skip,
\* in order and of the block's type, and r.links one link for every link
\* line of the blocks of the set skip
ElementsSkip(skip) ==
    LET kept == KeptBlocks(docIdx, skip)
    IN  /\ Len(els) = Len(kept)
        /\ \A k \in 1..Len(kept) :
               /\ els[k].IsHeading <=> docBlocks[kept[k]].type = "heading"
               /\ els[k].IsPreformat <=> docBlocks[kept[k]].type = "preformat"
               /\ els[k].Title = docBlocks[kept[k]].title
        /\ Len(rlinks) = NumLinkLines(docIdx, skip)

\* C8 as stated: a heading titled "Links" and the paragraphs and preformat
\* blocks after it up to the next heading produce no doc element and only
\* add their links to the renderer's list; every other block is rendered.
C8_AsStated ==
    pc \in {"doc", "done"} =>
        ElementsSkip({i \in 1..Len(docBlocks) :
                          IsLinksHeading(i) \/ AfterLinksHeading(i)})

\* C8 amended: when declHTML is called with extractLinks set, a heading
\* titled "Links" and the paragraphs and preformat blocks after it up to the
\* next heading produce no doc element and only add their links to the
\* renderer's list, and every other block is rendered; when extractLinks is
\* not set, every block is rendered and no link is collected.
C8_LinksMode ==
    pc \in {"doc", "done"} =>
        /\ ElementsSkip({i \in 1..Len(docBlocks) :
               extractLinks /\ (IsLinksHeading(i) \/ AfterLinksHeading(i))})
        /\ inLinks <=> /\ extractLinks
                       /\ docIdx > 0
                       /\ \/ IsLinksHeading(docIdx)
                          \/ AfterLinksHeading(docIdx)

\* C8 witness: links were collected after a "Links" heading, a later
\* heading ended the collection and the block after it was rendered.
C8_Witness ==
    /\ pc = "done" /\ extractLinks
    /\ Len(docBlocks) = 5
    /\ IsLinksHeading(2)
    /\ AfterLinksHeading(3)
    /\ docBlocks[4].type = "heading" /\ ~IsLinksHeading(4)
    /\ docBlocks[5].type = "paragraph"
    /\ Len(rlinks) = 1
    /\ Len(els) = 3 /\ ~els[3].IsHeading

-----------------------------------------------------------------------------
(* docToBlocks, the text segmenter.  Its code is not among the sources:    *)
(* the model follows section 4.1 of the specification and the cases of     *)
(* TestDocToBlocks (render_test.go:54-231).  A doc comment is the sequence *)
(* of its lines.                                                           *)

IndentChars == {" ", "\t"}
TerminalPunct == {".", ",", ":", ";", "!", "?"}

isBlank(l) == \A k \in 1..Len(l) : l[k] \in IndentChars
indentLen(l) == SpanWhile(l, 0, IndentChars)

\* the least indentation of the non-blank lines of ls from line k on, n
\* being the least so far (-1 for none)
RECURSIVE minIndent(_, _, _)
minIndent(ls, k, n) ==
    IF k > Len(ls) THEN n
    ELSE IF isBlank(ls[k]) THEN minIndent(ls, k + 1, n)
    ELSE IF n < 0 \/ indentLen(ls[k]) < n
    THEN minIndent(ls, k + 1, indentLen(ls[k]))
    ELSE minIndent(ls, k + 1, n)

\* the baseline: the indentation all non-blank lines share
baseline(ls) == IF minIndent(ls, 1, -1) < 0 THEN 0 ELSE minIndent(ls, 1, -1)

stripIndent(ls, n) ==
    [k \in 1..Len(ls) |-> IF isBlank(ls[k]) THEN <<>> ELSE Drop(ls[k], n)]

\* the lines without the baseline indentation
unindent(ls) == stripIndent(ls, baseline(ls))

\* a group: consecutive non-blank lines, all indented or all not; first is
\* the number of its first line
Group(code, first, lns) == [code |-> code, first |-> first, lines |-> lns]

\* cur holds the open group, if there is one
closeGroup(groups, cur) == IF cur = <<>> THEN groups ELSE Append(groups, cur[1])

\* the single forward pass over the lines: a blank line and a change of
\* indentation both end the open group
RECURSIVE groupLines(_, _, _, _)
groupLines(ls, k, groups, cur) ==
    IF k > Len(ls) THEN closeGroup(groups, cur)
    ELSE IF isBlank(ls[k])
    THEN groupLines(ls, k + 1, closeGroup(groups, cur), <<>>)
    ELSE IF cur /= <<>> /\ cur[1].code = (indentLen(ls[k]) > 0)
    THEN groupLines(ls, k + 1, groups,
                    <<[cur[1] EXCEPT !.lines = Append(@, ls[k])]>>)
    ELSE groupLines(ls, k + 1, closeGroup(groups, cur),
                    <<Group(indentLen(ls[k]) > 0, k, <<ls[k]>>)>>)

\* a blank line before the group and a blank line after it
flanked(ls, g) ==
    /\ g.first > 1 /\ isBlank(ls[g.first - 1])
    /\ g.first + Len(g.lines) <= Len(ls)
    /\ isBlank(ls[g.first + Len(g.lines)])

endsInPunct(l) == l[Len(l)] \in TerminalPunct

isHeading_First(ls, groups, i) ==
    /\ ~groups[i].code /\ Len(groups[i].lines) = 1
    /\ flanked(ls, groups[i])
    /\ ~endsInPunct(groups[i].lines[1])
    /\ i < Len(groups) /\ ~groups[i + 1].code

\* group i is a heading: a lone line flanked by blank lines, not ending in
\* terminal punctuation, not the first block, and (TestDocToBlocks, the
\* sixth case) followed by a block that is not indented
isHeading(ls, groups, i) ==
    /\ i > 1
    /\ ~groups[i].code /\ Len(groups[i].lines) = 1
    /\ flanked(ls, groups[i])
    /\ ~endsInPunct(groups[i].lines[1])
    /\ i < Len(groups) /\ ~groups[i + 1].code

toBlock(ls, groups, i) ==
    IF groups[i].code THEN Preformat(unindent(groups[i].lines))
    ELSE IF isHeading(ls, groups, i) THEN Heading(groups[i].lines[1])
    ELSE Paragraph(groups[i].lines)

classify(ls, groups) == [i \in 1..Len(groups) |-> toBlock(ls, groups, i)]

segment(ls) == classify(ls, groupLines(ls, 1, <<>>, <<>>))

docToBlocks(doc) == segment(unindent(doc))

\* The doc comments: at most MaxLines lines, each a blank line, a title,
\* a sentence, or a line indented once or twice.
MaxLines == 7

DocLineSet == {<<>>, <<"T">>, <<"t", ".">>, <<"\t", "f">>, <<"\t", "\t", "f">>}

InitBlocks ==
    /\ docLines \in UNION {[1..n -> DocLineSet] : n \in 0..MaxLines}
    /\ blocksOut = <<>>
    /\ TreeIdle
    /\ LineIdle /\ LinkIdle /\ DocIdle /\ DeclIdle /\ UnitIdle
    /\ pc = "blocks"

\* one call of docToBlocks(docLines)
DocToBlocks ==
    /\ pc = "blocks"
    /\ blocksOut' = docToBlocks(docLines)
    /\ pc' = "done"
    /\ UNCHANGED <<docLines, lineVars, linkVars, treeVars, docVars, declVars, unitVars>>

NextBlocks == DocToBlocks

SpecBlocks == InitBlocks /\ [][NextBlocks]_vars

\* --- what the call did, read from docLines and blocksOut ---

BlockLen(b) == IF b.type = "heading" THEN 1 ELSE Len(b.lines)

RECURSIVE LinesBefore(_, _)
LinesBefore(bs, j) ==
    IF j <= 1 THEN 0 ELSE LinesBefore(bs, j - 1) + BlockLen(bs[j - 1])

\* the number of the n-th non-blank line of docLines
NonBlankAt(n) ==
    CHOOSE k \in 1..Len(docLines) :
        /\ ~isBlank(docLines[k])
        /\ Cardinality({j \in 1..k : ~isBlank(docLines[j])}) = n

\* the number of the first line of block j
FirstLineOf(j) == NonBlankAt(LinesBefore(blocksOut, j) + 1)

\* line k is indented beyond the baseline
Indented(k) == indentLen(docLines[k]) > baseline(docLines)

\* block j is a lone one-line paragraph, flanked by blank lines, not ending
\* in terminal punctuation, and not the first block
LoneLine(j) == BlockLen(blocksOut[j]) = 1 /\ ~Indented(FirstLineOf(j))

FlankedLine(k) ==
    /\ k > 1 /\ isBlank(docLines[k - 1])
    /\ k < Len(docLines) /\ isBlank(docLines[k + 1])

C9_Claimed(j) ==
    /\ LoneLine(j)
    /\ FlankedLine(FirstLineOf(j))
    /\ docLines[FirstLineOf(j)][Len(docLines[FirstLineOf(j)])] \notin TerminalPunct
    /\ j > 1

\* the block after block j is not indented
NextIsText(j) == j < Len(blocksOut) /\ ~Indented(FirstLineOf(j + 1))

\* C9 as stated: a block is a Heading exactly when it is a lone one-line
\* paragraph, flanked by blank lines, not ending in terminal punctuation
\* and not the first block.
C9_AsStated ==
    pc = "done" =>
        \A j \in 1..Len(blocksOut) :
            (blocksOut[j].type = "heading") <=> C9_Claimed(j)

\* C9: docToBlocks turns a block into a Heading exactly when it is a lone
\* one-line paragraph, flanked by blank lines, not ending in terminal
\* punctuation, not the first block, and followed by a block that is not
\* indented; a heading is never the first block, its title is the line, and
\* every other one-line block that is not indented stays a Paragraph.
C9_Heading ==
    pc = "done" =>
        \A j \in 1..Len(blocksOut) :
            /\ (blocksOut[j].type = "heading")
                   <=> (C9_Claimed(j) /\ NextIsText(j))
            /\ blocksOut[j].type = "heading"
                   => /\ j > 1
                      /\ blocksOut[j].title =
                             Drop(docLines[FirstLineOf(j)], baseline(docLines))
            /\ (LoneLine(j) /\ ~(C9_Claimed(j) /\ NextIsText(j)))
                   => blocksOut[j].type = "paragraph"

\* C9 witness: one call made a heading of a lone line and left another
\* lone line, the one before an indented block, a paragraph.
C9_Witness ==
    /\ pc = "done"
    /\ \E j \in 1..Len(blocksOut) : blocksOut[j].type = "heading"
    /\ \E j \in 1..Len(blocksOut) :
           /\ C9_Claimed(j) /\ blocksOut[j].type = "paragraph"
           /\ j < Len(blocksOut) /\ blocksOut[j + 1].type = "preformat"

-----------------------------------------------------------------------------
(* Declarations: the go/ast trees formatDeclHTML is given.  A node is a    *)
(* record with the fields of its Go type; nil is the empty sequence.  Obj  *)
(* of an identifier is "nil" (unresolved), "top" (its Obj.Decl is among    *)
(* idr.topLevelDecls) or "other".  A position is the number of the value   *)
(* in its spec.  Obj "pkg" is the binding of an import, whose ImportSpec   *)
(* has the identifier's name as its path.                                  *)

Ident(name, obj) == [node |-> "Ident", Name |-> name, Obj |-> obj]

BasicLit(kind, value, pos) ==
    [node |-> "BasicLit", Kind |-> kind, Value |-> value, ValuePos |-> pos]

CompositeLit(type, elts, pos) ==
    [node |-> "CompositeLit", Type |-> type, Elts |-> elts, Lbrace |-> pos]

Comment(slash, text) == [Slash |-> slash, Text |-> text]

ValueSpec(doc, names, type, values, comment) ==
    [node |-> "ValueSpec", Doc |-> doc, Names |-> names, Type |-> type,
     Values |-> values, Comment |-> comment]

Field(doc, names, type, tag, comment) ==
    [node |-> "Field", Doc |-> doc, Names |-> names, Type |-> type,
     Tag |-> tag, Comment |-> comment]

StructType(fields) == [node |-> "StructType", Fields |-> fields]

\* Fields is Methods.List
InterfaceType(methods) == [node |-> "InterfaceType", Fields |-> methods]

SelectorExpr(x, sel) == [node |-> "SelectorExpr", X |-> x, Sel |-> sel]

StarExpr(x) == [node |-> "StarExpr", X |-> x]

\* Params and Results are the lists of their field lists
FuncType(params, results) ==
    [node |-> "FuncType", Params |-> params, Results |-> results]

AssignStmt(lhs, tok, rhs) ==
    [node |-> "AssignStmt", Lhs |-> lhs, Tok |-> tok, Rhs |-> rhs]

BlockStmt(list) == [node |-> "BlockStmt", List |-> list]

\* Recv is the list of the receiver's field list, Body a block or nil
FuncDecl(doc, recv, name, type, body) ==
    [node |-> "FuncDecl", Doc |-> doc, Recv |-> recv, Name |-> name,
     Type |-> type, Body |-> body]

TypeSpec(doc, name, type) ==
    [node |-> "TypeSpec", Doc |-> doc, Name |-> name, Type |-> type,
     Comment |-> <<>>]

\* blank[i] says that a blank line precedes Specs[i] in the source
GenDecl(doc, tok, lparen, specs, blank) ==
    [node |-> "GenDecl", Doc |-> doc, Tok |-> tok, Lparen |-> lparen,
     Specs |-> specs, blank |-> blank]

-----------------------------------------------------------------------------
(* rewriteDecl (linkify.go:495-554).                                       *)

maxStringSize == 125
maxElements == 100

DigitChars == <<"0", "1", "2", "3", "4", "5", "6", "7", "8", "9">>

\* fmt.Sprintf("%d", n) for n >= 0
RECURSIVE Itoa(_)
Itoa(n) ==
    IF n < 10 THEN <<DigitChars[n + 1]>>
    ELSE Append(Itoa(n \div 10), DigitChars[(n % 10) + 1])

\* fmt.Sprintf("/* %d-byte string literal not displayed */", size)
stringNote(size) ==
    <<"/", "*", " ">> \o Itoa(size) \o
    <<"-", "b", "y", "t", "e", " ", "s", "t", "r", "i", "n", "g", " ",
      "l", "i", "t", "e", "r", "a", "l", " ", "n", "o", "t", " ",
      "d", "i", "s", "p", "l", "a", "y", "e", "d", " ", "*", "/">>

\* fmt.Sprintf("/* %d elements not displayed */", len(n.Elts))
elementsNote(n) ==
    <<"/", "*", " ">> \o Itoa(n) \o
    <<" ", "e", "l", "e", "m", "e", "n", "t", "s", " ", "n", "o", "t", " ",
      "d", "i", "s", "p", "l", "a", "y", "e", "d", " ", "*", "/">>

\* addComment(cg, pos, text): *cg after the call
addComment(cg, pos, text) == Append(cg, Comment(pos, text))

\* emptyLit that leaves the literal as it is
emptyLit_Keep(value) == value

\* the empty literal of the delimiter style of value
emptyLit(value) == IF value[1] = "BQ" THEN <<"BQ", "BQ">> ELSE <<"\"", "\"">>

\* rewriteLongValue(n, pcg): the node n and the group *pcg after the call
rewriteLongValue(n, cg, maxStr, maxElts) ==
    IF n.node = "BasicLit"
    THEN IF n.Kind /= "STRING" \/ Len(n.Value) - 2 <= maxStr
         THEN [n |-> n, cg |-> cg]
         ELSE [n |-> [n EXCEPT !.Value = emptyLit(n.Value)],
               cg |-> addComment(cg, n.ValuePos, stringNote(Len(n.Value) - 2))]
    ELSE IF n.node = "CompositeLit" /\ Len(n.Elts) > maxElts
    THEN [n |-> [n EXCEPT !.Elts = <<>>],
          cg |-> addComment(cg, n.Lbrace, elementsNote(Len(n.Elts)))]
    ELSE [n |-> n, cg |-> cg]

\* Visit, case *ast.ValueSpec: the loop over n.Values from value k on; r is
\* what rewriteLongValue made of value k
setValue(sp, k, r) == [sp EXCEPT !.Values[k] = r.n, !.Comment = r.cg]

RECURSIVE visitValueSpec(_, _, _, _)
visitValueSpec(sp, k, maxStr, maxElts) ==
    IF k > Len(sp.Values) THEN sp
    ELSE visitValueSpec(
             setValue(sp, k, rewriteLongValue(sp.Values[k], sp.Comment,
                                              maxStr, maxElts)),
             k + 1, maxStr, maxElts)

\* Visit, case *ast.Field
setTag(f, r) == [f EXCEPT !.Tag = <<r.n>>, !.Comment = r.cg]

visitField(f, maxStr, maxElts) ==
    IF f.Tag /= <<>>
    THEN setTag(f, rewriteLongValue(f.Tag[1], f.Comment, maxStr, maxElts))
    ELSE f

\* ast.Walk below a spec: the value specs and the fields it comes to
visitSpec(sp, maxStr, maxElts) ==
    IF sp.node = "ValueSpec" THEN visitValueSpec(sp, 1, maxStr, maxElts)
    ELSE IF sp.Type.node \notin {"StructType", "InterfaceType"} THEN sp
    ELSE [sp EXCEPT !.Type.Fields =
              [i \in 1..Len(@) |-> visitField(@[i], maxStr, maxElts)]]

rewriteDecl(n, maxStr, maxElts) ==
    IF n.node = "FuncDecl" THEN n
    ELSE
    [n EXCEPT !.Specs = [i \in 1..Len(@) |-> visitSpec(@[i], maxStr, maxElts)]]

-----------------------------------------------------------------------------
(* The identifiers of a declaration in the order of ast.Inspect, and the   *)
(* maps generateAnchorPoints and generateAnchorLinks (linkify.go:579-694). *)
(* The key of a map, a *ast.Ident, is the path of the identifier in the    *)
(* tree: the number of a child among the children of its parent, from the  *)
(* declaration down.                                                       *)

Occ(path, id) == [path |-> path, id |-> id]

\* the sequences ss[lo], ..., ss[hi] one after the other
RECURSIVE ConcatRange(_, _, _)
ConcatRange(ss, lo, hi) ==
    IF lo > hi THEN <<>>
    ELSE IF lo = hi THEN ss[lo]
    ELSE ConcatRange(ss, lo, (lo + hi) \div 2)
         \o ConcatRange(ss, (lo + hi) \div 2 + 1, hi)

Concat(ss) == ConcatRange(ss, 1, Len(ss))

\* the children of node n in the order of ast.Walk; a field list stands
\* for its List, and comments hold no node ast.Inspect acts on
children(n) ==
    IF n.node = "GenDecl" THEN n.Specs
    ELSE IF n.node = "ValueSpec" THEN n.Names \o n.Type \o n.Values
    ELSE IF n.node = "TypeSpec" THEN <<n.Name, n.Type>>
    ELSE IF n.node \in {"StructType", "InterfaceType"} THEN n.Fields
    ELSE IF n.node = "Field" THEN n.Names \o <<n.Type>> \o n.Tag
    ELSE IF n.node = "FuncDecl" THEN n.Recv \o <<n.Name, n.Type>> \o n.Body
    ELSE IF n.node = "FuncType" THEN n.Params \o n.Results
    ELSE IF n.node = "BlockStmt" THEN n.List
    ELSE IF n.node = "AssignStmt" THEN n.Lhs \o n.Rhs
    ELSE IF n.node = "SelectorExpr" THEN <<n.X, n.Sel>>
    ELSE IF n.node = "StarExpr" THEN <<n.X>>
    ELSE IF n.node = "CompositeLit" THEN <<n.Type>> \o n.Elts
    ELSE <<>>

\* ast.Inspect from node n at path p: the identifiers it comes to
RECURSIVE inspectNode(_, _)
inspectBelow(cs, p) ==
    Concat([c \in 1..Len(cs) |-> inspectNode(cs[c], Append(p, c))])

inspectNode(n, p) ==
    IF n.node = "Ident" THEN <<Occ(p, n)>> ELSE inspectBelow(children(n), p)

\* the *ast.Ident nodes ast.Inspect(decl, ...) comes to, in its order
inspectIdents(d) == inspectNode(d, <<>>)

\* badIDRx: [^_\pL\pN.]
GoIDChars == Letter \cup Digit \cup {"_", "."}

\* SafeGoID without the call of ValidateGoDottedExpr
SafeGoID_Unchecked(s) == s

\* SafeGoID(s): the identifier s, or the panic of ValidateGoDottedExpr
SafeGoID(s) ==
    IF \E k \in 1..Len(s) : s[k] \notin GoIDChars THEN <<"panic">> ELSE s

idKind(id, kind) == [ID |-> id, Kind |-> kind]

\* the call of SafeGoID panicked while the map m was built
panicked(m) == \E e \in 1..Len(m) : m[e].val.ID = <<"panic">>

\* the zero idKind, what a map gives for a key it does not hold
noIDKind == idKind(<<>>, "")

Entry(key, val) == [key |-> key, val |-> val]

\* m[key] of the map m, the list of its assignments in their order; zero
\* for a key the map does not hold
mapAt(m, key, zero) ==
    IF \E e \in 1..Len(m) : m[e].key = key
    THEN m[CHOOSE e \in 1..Len(m) :
               /\ m[e].key = key
               /\ \A e2 \in (e + 1)..Len(m) : m[e2].key /= key].val
    ELSE zero

\* the key nil
nilIdent == <<>>

\* nodeName(n) of the node n at path p: the name, and the identifier
RECURSIVE nodeName(_, _)
nodeName(n, p) ==
    IF n.node = "Ident" THEN [name |-> n.Name, id |-> p]
    ELSE IF n.node = "StarExpr" THEN nodeName(n.X, Append(p, 1))
    ELSE IF n.node = "SelectorExpr"
    THEN [name |-> nodeName(n.X, Append(p, 1)).name \o <<".">> \o n.Sel.Name,
          id |-> Append(p, 2)]
    ELSE [name |-> <<>>, id |-> nilIdent]

\* strings.LastIndexByte(s, '.'), 0-based, -1 without a dot
LastIndexByte(s, c) ==
    IF \E k \in 1..Len(s) : s[k] = c
    THEN (CHOOSE k \in 1..Len(s) :
              s[k] = c /\ \A j \in (k + 1)..Len(s) : s[j] /= c) - 1
    ELSE -1

\* baseName that keeps the qualifier
baseName_Whole(typeName) == typeName

\* typeName[strings.LastIndexByte(typeName, '.')+1:]
baseName(typeName) == Drop(typeName, LastIndexByte(typeName, ".") + 1)

\* the loop over the fields of type spec ts, at path p, for one field f
fieldPoints(ts, f, p, kind) ==
    [k \in 1..Len(f.Names) |->
        Entry(Append(p, k),
              idKind(SafeGoID(ts.Name.Name \o <<".">> \o f.Names[k].Name), kind))]
    \o (IF f.Names = <<>> /\ kind = "field"
        THEN <<Entry(nodeName(f.Type, Append(p, 1)).id,
                     idKind(SafeGoID(ts.Name.Name \o <<".">>
                                     \o baseName(nodeName(f.Type, Append(p, 1)).name)),
                            kind))>>
        ELSE <<>>)

\* fs and kind of the type of a type spec
fieldKind(type) ==
    IF type.node = "StructType" THEN "field"
    ELSE IF type.node = "InterfaceType" THEN "method"
    ELSE ""

fieldList(type) ==
    IF type.node \in {"StructType", "InterfaceType"} THEN type.Fields ELSE <<>>

\* the assignments to m for spec sp, the child i of declaration d
specPoints(d, sp, i) ==
    IF d.Tok \in {"const", "var"}
    THEN [k \in 1..Len(sp.Names) |->
             Entry(<<i, k>>,
                   idKind(SafeGoID(sp.Names[k].Name),
                          IF d.Tok = "var" THEN "variable" ELSE "constant"))]
    ELSE IF d.Tok = "type"
    THEN <<Entry(<<i, 1>>, idKind(SafeGoID(sp.Name.Name), "type"))>>
         \o Concat([f \in 1..Len(fieldList(sp.Type)) |->
                       fieldPoints(sp, fieldList(sp.Type)[f], <<i, 2, f>>,
                                   fieldKind(sp.Type))])
    ELSE <<>>

\* the anchor of a function declaration
funcPoint(d) ==
    IF Len(d.Recv) > 0
    THEN idKind(SafeGoID(baseName(nodeName(d.Recv[1].Type, <<>>).name)
                         \o <<".">> \o d.Name.Name), "method")
    ELSE idKind(SafeGoID(d.Name.Name), "function")

\* generateAnchorPoints(decl): the map as the list of its assignments
generateAnchorPoints(d) ==
    IF d.node = "GenDecl"
    THEN Concat([i \in 1..Len(d.Specs) |-> specPoints(d, d.Specs[i], i)])
    ELSE IF d.node = "FuncDecl"
    THEN <<Entry(<<Len(d.Recv) + 1>>, funcPoint(d))>>
    ELSE <<>>

\* doc.IsPredeclared(name), for the names the declarations here use
Predeclared == {<<"i", "n", "t">>, <<"s", "t", "r", "i", "n", "g">>}

\* idr.toURL(path, name) of a resolver that links to /path#name
toURL(path, name) == <<"/">> \o path \o <<"#">> \o name

builtin == <<"b", "u", "i", "l", "t", "i", "n">>

\* ignoredChild with an empty ignore set
ignoredChild_None(n, c) == FALSE

\* ignore[c] for child c of node n: the names a function, a type spec or a
\* value spec declares, and the left-hand sides of an assignment
ignoredChild(n, c) ==
    \/ n.node = "FuncDecl" /\ c = Len(n.Recv) + 1
    \/ n.node = "TypeSpec" /\ c = 1
    \/ n.node = "ValueSpec" /\ c <= Len(n.Names)
    \/ n.node = "AssignStmt" /\ c <= Len(n.Lhs)

\* the selector test: X is an identifier bound to an import whose path
\* unquotes
importBound(n) ==
    n.node = "SelectorExpr" /\ n.X.node = "Ident" /\ n.X.Obj = "pkg"

\* the path of the import the identifier id is bound to
importPath(id) == id.Name

\* case *ast.Ident
identLink(id) ==
    IF id.Obj = "nil" /\ id.Name \in Predeclared
    THEN toURL(builtin, id.Name)
    ELSE IF id.Obj /= "nil" /\ id.Obj = "top" THEN <<"#">> \o id.Name
    ELSE <<>>

\* no link for any identifier of a subtree the traversal does not enter
noLinks(n) == [k \in 1..Len(inspectNode(n, <<>>)) |-> <<>>]

\* the traversal of generateAnchorLinks from node n: m[id] for the
\* identifiers below n in the order of ast.Inspect, the empty string for a
\* key the map does not hold
RECURSIVE linkNode(_, _)
linkBelow(n, cs) ==
    Concat([c \in 1..Len(cs) |-> linkNode(cs[c], ignoredChild(n, c))])

linkNode(n, ign) ==
    IF ign THEN noLinks(n)
    ELSE IF importBound(n)
    THEN <<toURL(importPath(n.X), <<>>), toURL(importPath(n.X), n.Sel.Name)>>
    ELSE IF n.node = "Ident" THEN <<identLink(n)>>
    ELSE linkBelow(n, children(n))

\* generateAnchorLinks(idr, decl)[id] for the identifiers of decl in the
\* order of ast.Inspect
generateAnchorLinks(d) == linkNode(d, FALSE)

-----------------------------------------------------------------------------
(* The source p.Fprint writes for a declaration (linkify.go:390-393), as   *)
(* the sequence of its tokens and line breaks.  Every spec and every field *)
(* is written on one line, its doc comment on the lines before it, its     *)
(* comment group at the end of its line.  SEMICOLON is the token the       *)
(* scanner inserts at the end of a line of code; its literal is the line   *)
(* break that follows.                                                     *)

Tok(tok, lit) == [tok |-> tok, lit |-> lit]

NL == Tok("NL", <<"\n">>)
Semi == Tok("SEMICOLON", <<"\n">>)
Comma == Tok("COMMA", <<",">>)

\* the token lists ss[lo], ..., ss[hi] with sep between one and the next
RECURSIVE joinTokens(_, _, _, _)
joinTokens(ss, sep, lo, hi) ==
    IF lo > hi THEN <<>>
    ELSE IF lo = hi THEN ss[lo]
    ELSE joinTokens(ss, sep, lo, (lo + hi) \div 2) \o <<sep>>
         \o joinTokens(ss, sep, (lo + hi) \div 2 + 1, hi)

\* the characters s.Scan() reads as one identifier or number
wordChars == Letter \cup Digit \cup {"_"}

\* the places of name where s.Scan() begins a token: a word begins at the
\* first of its characters, every other character is a token of its own
tokenStarts(name) ==
    SelectSeq([k \in 1..Len(name) |-> k],
              LAMBDA k : \/ name[k] \notin wordChars
                         \/ k = 1
                         \/ name[k - 1] \notin wordChars)

\* the token s.Scan() returns for the characters w of the source
wordToken(w) ==
    IF w[1] \in Digit THEN Tok("INT", w)
    ELSE IF w[1] \in wordChars THEN Tok("IDENT", w)
    ELSE IF w = <<"-">> THEN Tok("SUB", w)
    ELSE IF w = <<".">> THEN Tok("PERIOD", w)
    ELSE Tok("ILLEGAL", w)

\* the name of an identifier as p.Fprint writes it, character for
\* character, and as s.Scan() reads it back: one IDENT when the name is an
\* identifier of the language, several tokens when it is not (a-b is the
\* identifier a, the operator - and the identifier b)
identTokens(name) ==
    [i \in 1..Len(tokenStarts(name)) |->
        wordToken(SubSeq(name, tokenStarts(name)[i],
                         IF i < Len(tokenStarts(name))
                         THEN tokenStarts(name)[i + 1] - 1 ELSE Len(name)))]

RECURSIVE exprTokens(_)
exprListTokens(es) ==
    joinTokens([k \in 1..Len(es) |-> exprTokens(es[k])], Comma, 1, Len(es))

\* a parameter or a result
paramTokens(f) == exprListTokens(f.Names) \o exprTokens(f.Type)

\* the signature of a function type: its parameters, its results
signatureTokens(ft) ==
    <<Tok("LPAREN", <<"(">>)>>
    \o joinTokens([k \in 1..Len(ft.Params) |-> paramTokens(ft.Params[k])],
                  Comma, 1, Len(ft.Params))
    \o <<Tok("RPAREN", <<")">>)>>
    \o joinTokens([k \in 1..Len(ft.Results) |-> paramTokens(ft.Results[k])],
                  Comma, 1, Len(ft.Results))

exprTokens(e) ==
    IF e.node = "Ident" THEN identTokens(e.Name)
    ELSE IF e.node = "BasicLit" THEN <<Tok(e.Kind, e.Value)>>
    ELSE IF e.node = "SelectorExpr"
    THEN exprTokens(e.X) \o <<Tok("PERIOD", <<".">>)>> \o exprTokens(e.Sel)
    ELSE IF e.node = "StarExpr"
    THEN <<Tok("MUL", <<"*">>)>> \o exprTokens(e.X)
    ELSE IF e.node = "FuncType"
    THEN <<Tok("FUNC", <<"f", "u", "n", "c">>)>> \o signatureTokens(e)
    ELSE exprTokens(e.Type) \o <<Tok("LBRACE", <<"{">>)>>
         \o joinTokens([j \in 1..Len(e.Elts) |-> exprTokens(e.Elts[j])], Comma,
                       1, Len(e.Elts))
         \o <<Tok("RBRACE", <<"}">>)>>

\* a doc comment: every comment on a line of its own
docTokens(doc) ==
    Concat([k \in 1..Len(doc) |-> <<Tok("COMMENT", doc[k].Text), NL>>])

\* a comment group at the end of a line
commentTokens(cg) == [k \in 1..Len(cg) |-> Tok("COMMENT", cg[k].Text)]

valueSpecTokens(sp) ==
    docTokens(sp.Doc)
    \o exprListTokens(sp.Names)
    \o exprListTokens(sp.Type)
    \o (IF Len(sp.Values) > 0
        THEN <<Tok("ASSIGN", <<"=">>)>> \o exprListTokens(sp.Values)
        ELSE <<>>)
    \o <<Semi>> \o commentTokens(sp.Comment)

\* a method of an interface is written without the keyword func
fieldTypeTokens(f, kind) ==
    IF kind = "method" /\ f.Type.node = "FuncType"
    THEN signatureTokens(f.Type)
    ELSE exprTokens(f.Type)

fieldTokens(f, kind) ==
    docTokens(f.Doc)
    \o exprListTokens(f.Names)
    \o fieldTypeTokens(f, kind)
    \o exprListTokens(f.Tag)
    \o <<Semi>> \o commentTokens(f.Comment) \o <<NL>>

typeKeyword(type) ==
    IF type.node = "StructType"
    THEN Tok("STRUCT", <<"s", "t", "r", "u", "c", "t">>)
    ELSE Tok("INTERFACE", <<"i", "n", "t", "e", "r", "f", "a", "c", "e">>)

typeSpecTokens(sp) ==
    docTokens(sp.Doc)
    \o exprTokens(sp.Name)
    \o (IF sp.Type.node \in {"StructType", "InterfaceType"}
        THEN <<typeKeyword(sp.Type), Tok("LBRACE", <<"{">>), NL>>
             \o Concat([f \in 1..Len(sp.Type.Fields) |->
                           fieldTokens(sp.Type.Fields[f], fieldKind(sp.Type))])
             \o <<Tok("RBRACE", <<"}">>), Semi>>
        ELSE exprTokens(sp.Type) \o <<Semi>>)

specTokens(sp) ==
    IF sp.node = "ValueSpec" THEN valueSpecTokens(sp) ELSE typeSpecTokens(sp)

\* a statement of a function body, on a line of its own
stmtTokens(st) ==
    exprListTokens(st.Lhs)
    \o <<Tok(st.Tok, IF st.Tok = "DEFINE" THEN <<":", "=">> ELSE <<"=">>)>>
    \o exprListTokens(st.Rhs) \o <<Semi, NL>>

blockTokens(b) ==
    <<Tok("LBRACE", <<"{">>), NL>>
    \o Concat([k \in 1..Len(b.List) |-> stmtTokens(b.List[k])])
    \o <<Tok("RBRACE", <<"}">>)>>

\* the source of the function declaration d
funcDeclTokens(d) ==
    docTokens(d.Doc) \o <<Tok("FUNC", <<"f", "u", "n", "c">>)>>
    \o (IF Len(d.Recv) > 0
        THEN <<Tok("LPAREN", <<"(">>)>>
             \o joinTokens([k \in 1..Len(d.Recv) |-> paramTokens(d.Recv[k])],
                           Comma, 1, Len(d.Recv))
             \o <<Tok("RPAREN", <<")">>)>>
        ELSE <<>>)
    \o exprTokens(d.Name) \o signatureTokens(d.Type)
    \o Concat([k \in 1..Len(d.Body) |-> blockTokens(d.Body[k])])
    \o <<Semi>>

keyword(tok) ==
    IF tok = "var" THEN <<"v", "a", "r">>
    ELSE IF tok = "const" THEN <<"c", "o", "n", "s", "t">>
    ELSE <<"t", "y", "p", "e">>

\* the spec i of a parenthesized declaration, after a blank line if the
\* source has one there
groupedSpec(d, i) ==
    (IF d.blank[i] THEN <<NL>> ELSE <<>>) \o specTokens(d.Specs[i]) \o <<NL>>

\* the declaration d as the printer writes its nodes
declTokens(d) ==
    IF d.node = "FuncDecl" THEN funcDeclTokens(d)
    ELSE
    docTokens(d.Doc) \o <<Tok(d.Tok, keyword(d.Tok))>>
    \o (IF d.Lparen
        THEN <<Tok("LPAREN", <<"(">>), NL>>
             \o Concat([i \in 1..Len(d.Specs) |-> groupedSpec(d, i)])
             \o <<Tok("RPAREN", <<")">>), Semi>>
        ELSE specTokens(d.Specs[1]))

\* the printer ends the source with a line break when the last it wrote is
\* a comment
endOfSource(toks) ==
    IF Len(toks) > 0 /\ toks[Len(toks)].tok = "COMMENT"
    THEN Append(toks, NL) ELSE toks

\* the source of the declaration d
fprint(d) == endOfSource(declTokens(d))

\* the line breaks of src that item t holds
newlinesIn(t) == IF t.tok = "SEMICOLON" THEN 0 ELSE Count(t.lit, "\n")

\* s.Scan() until EOF: the tokens of src, each with the 0-indexed line
\* file.Line(p) - 1 it starts on.  st holds the line the scanner is on and
\* the tokens it has returned.
ScanTok(t, ln) == [tok |-> t.tok, lit |-> t.lit, line |-> ln]

scanItem(t, st) ==
    [ln |-> st.ln + newlinesIn(t),
     toks |-> IF t.tok = "NL" THEN st.toks ELSE Append(st.toks, ScanTok(t, st.ln))]

\* the items lo..hi of src, the first half before the second; the scanner
\* is on a line of src when it comes to them
RECURSIVE scanAll(_, _, _, _)
scanAll(src, lo, hi, st) ==
    IF lo > hi \/ st.ln < 0 THEN st
    ELSE IF lo = hi THEN scanItem(src[lo], st)
    ELSE scanAll(src, (lo + hi) \div 2 + 1, hi,
                 scanAll(src, lo, (lo + hi) \div 2, st))

scanner(src) == scanAll(src, 1, Len(src), [ln |-> 0, toks |-> <<>>])

-----------------------------------------------------------------------------
(* formatDeclHTML (linkify.go:364-491).                                    *)

codeType == 1
commentType == 2

\* a | b of two lineType values
BitOr(a, b) ==
    (IF a % 2 = 1 \/ b % 2 = 1 THEN 1 ELSE 0)
    + (IF a \div 2 = 1 \/ b \div 2 = 1 THEN 2 ELSE 0)

\* strings.TrimSuffix(lit, "\n")
TrimSuffixNL(lit) ==
    IF Len(lit) > 0 /\ lit[Len(lit)] = "\n" THEN Take(lit, Len(lit) - 1) ELSE lit

\* lineTypes[line+i] |= tokType for i from n down to 0 (linkify.go:450-452)
markLines(lineTypes, ln, n, tokType) ==
    [k \in 1..Len(lineTypes) |->
        IF k - 1 >= ln /\ k - 1 <= ln + n
        THEN BitOr(lineTypes[k], tokType) ELSE lineTypes[k]]

\* what a line of HTML is made of: the text of the tokens, a comment in
\* its span, an identifier in its link
Piece(kind, text, href) == [kind |-> kind, text |-> text, href |-> href]

\* the state of the scan loop
ScanState(idIdx, anchorLines, lineTypes, htmlLines) ==
    [idIdx |-> idIdx, anchorLines |-> anchorLines, lineTypes |-> lineTypes,
     htmlLines |-> htmlLines]

\* case token.COMMENT
scanComment(t, st) ==
    ScanState(st.idIdx, st.anchorLines,
              markLines(st.lineTypes, t.line,
                        Count(TrimSuffixNL(t.lit), "\n"), commentType),
              [st.htmlLines EXCEPT ![t.line + 1] =
                   Append(@, Piece("comment", t.lit, <<>>))])

\* case token.IDENT
scanIdent(t, st, anchorPoints, anchorLinks) ==
    ScanState(st.idIdx + 1,
              IF st.idIdx < Len(anchorPoints)
                 /\ anchorPoints[st.idIdx + 1].ID /= <<>>
              THEN [st.anchorLines EXCEPT ![t.line + 1] =
                        Append(@, anchorPoints[st.idIdx + 1])]
              ELSE st.anchorLines,
              markLines(st.lineTypes, t.line,
                        Count(TrimSuffixNL(t.lit), "\n"), codeType),
              [st.htmlLines EXCEPT ![t.line + 1] =
                   Append(@, IF st.idIdx < Len(anchorLinks)
                                /\ anchorLinks[st.idIdx + 1] /= <<>>
                             THEN Piece("link", t.lit, anchorLinks[st.idIdx + 1])
                             ELSE Piece("text", t.lit, <<>>))])

\* strings.SplitAfter(s, "\n") without the empty string after a last line
\* break: the lines of s, each with the line break that ends it
RECURSIVE SplitAfterNL(_)
SplitAfterNL(s) ==
    IF s = <<>> THEN <<>>
    ELSE IF IndexByte(s, "\n") < 0 THEN <<s>>
    ELSE <<Take(s, IndexByte(s, "\n") + 1)>>
         \o SplitAfterNL(Drop(s, IndexByte(s, "\n") + 1))

\* the bytes of a token that the loop copies from src (linkify.go:419-427):
\* every line of them goes to the line of the source it is on
copyLines(htmlLines, ln, parts) ==
    [k \in 1..Len(htmlLines) |->
        IF k - 1 >= ln /\ k - ln <= Len(parts)
        THEN Append(htmlLines[k], Piece("text", parts[k - ln], <<>>))
        ELSE htmlLines[k]]

\* any other token
scanOther(t, st) ==
    ScanState(st.idIdx, st.anchorLines,
              markLines(st.lineTypes, t.line,
                        Count(TrimSuffixNL(t.lit), "\n"), codeType),
              copyLines(st.htmlLines, t.line, SplitAfterNL(t.lit)))

scanToken(t, st, anchorPoints, anchorLinks) ==
    IF t.tok = "COMMENT" THEN scanComment(t, st)
    ELSE IF t.tok = "IDENT" THEN scanIdent(t, st, anchorPoints, anchorLinks)
    ELSE scanOther(t, st)

\* the scan loop (linkify.go:412-453) over the tokens lo..hi, the first
\* half before the second; idIdx counts the identifiers among the tokens
\* before them
RECURSIVE scanLoop(_, _, _, _, _, _)
scanLoop(toks, lo, hi, st, anchorPoints, anchorLinks) ==
    IF lo > hi \/ st.idIdx > Len(toks) THEN st
    ELSE IF lo = hi THEN scanToken(toks[lo], st, anchorPoints, anchorLinks)
    ELSE scanLoop(toks, (lo + hi) \div 2 + 1, hi,
                  scanLoop(toks, lo, (lo + hi) \div 2, st,
                           anchorPoints, anchorLinks),
                  anchorPoints, anchorLinks)

\* the first line of the comment-only lines that end right before line j
\* (lines are numbered from 1 here)
RECURSIVE runStart_Mixed(_, _)
runStart_Mixed(lineTypes, j) ==
    IF j > 1 /\ lineTypes[j - 1] >= commentType
    THEN runStart_Mixed(lineTypes, j - 1) ELSE j

RECURSIVE runStart(_, _)
runStart(lineTypes, j) ==
    IF j > 1 /\ lineTypes[j - 1] = commentType
    THEN runStart(lineTypes, j - 1) ELSE j

\* a variant of swap that copies line i to line j and leaves line i as it is
swap_Copy(anchorLines, i, j) ==
    [anchorLines EXCEPT ![j] = anchorLines[i]]

swap(anchorLines, i, j) ==
    [anchorLines EXCEPT ![i] = anchorLines[j], ![j] = anchorLines[i]]

\* the hoist loop (linkify.go:457-465) from line i on
RECURSIVE hoistLoop(_, _, _)
hoistLoop(anchorLines, lineTypes, i) ==
    IF i > Len(anchorLines) THEN anchorLines
    ELSE IF i = Len(anchorLines) \/ Len(anchorLines[i + 1]) = 0
    THEN hoistLoop(swap(anchorLines, i, runStart(lineTypes, i)), lineTypes, i + 1)
    ELSE hoistLoop(anchorLines, lineTypes, i + 1)

\* emitted without the two tests
emitted_All(d, ik) == TRUE

\* the anchors of a line that are emitted (linkify.go:471-484)
emitted(d, ik) ==
    /\ ik.Kind /= "function" /\ ik.Kind /= "type"
    /\ ~(d.node = "FuncDecl" /\ d.Recv /= <<>>)

\* ExecuteToHTML(anchorTemplate, ik) for every ik of iks
anchorTags(iks) ==
    [k \in 1..Len(iks) |-> [kind |-> "anchor", id |-> iks[k].ID,
                            dataKind |-> iks[k].Kind]]

openTags(d, iks) == anchorTags(SelectSeq(iks, LAMBDA ik : emitted(d, ik)))

closeTag == [kind |-> "close"]

\* the emission loop (linkify.go:468-489) for one line
emitLine(opens, html) ==
    opens \o html \o (IF Len(opens) > 0 THEN <<closeTag>> ELSE <<>>)

emitLines(d, anchorLines, htmlLines) ==
    Concat([k \in 1..Len(anchorLines) |->
                emitLine(openTags(d, anchorLines[k]), htmlLines[k])])

\* what one call computes, in the order of the code
DeclOut(idents, anchorPoints, anchorLinks, toks, scan, anchorLines, htmls) ==
    [idents |-> idents, anchorPoints |-> anchorPoints,
     anchorLinks |-> anchorLinks, toks |-> toks,
     lineTypes |-> scan.lineTypes, scanned |-> scan.anchorLines,
     htmlLines |-> scan.htmlLines, anchorLines |-> anchorLines,
     htmls |-> htmls]

declEmit(d, idents, anchorPoints, anchorLinks, toks, scan, anchorLines) ==
    DeclOut(idents, anchorPoints, anchorLinks, toks, scan, anchorLines,
            emitLines(d, anchorLines, scan.htmlLines))

declHoist(d, idents, anchorPoints, anchorLinks, toks, scan) ==
    declEmit(d, idents, anchorPoints, anchorLinks, toks, scan,
             hoistLoop(scan.anchorLines, scan.lineTypes, 1))

declScan(d, idents, anchorPoints, anchorLinks, toks, numLines) ==
    declHoist(d, idents, anchorPoints, anchorLinks, toks,
              scanLoop(toks, 1, Len(toks),
                       ScanState(0, [k \in 1..numLines |-> <<>>],
                                 [k \in 1..numLines |-> 0],
                                 [k \in 1..numLines |-> <<>>]),
                       anchorPoints, anchorLinks))

\* numLines is bytes.Count(src, "\n") + 1, one more than the line the
\* scanner ends on
declPrint(d, idents, anchorPoints, anchorLinks, sc) ==
    declScan(d, idents, anchorPoints, anchorLinks, sc.toks, sc.ln + 1)

\* d0 is the declaration as given, d what rewriteDecl made of it
declPoints(d, idents, points, links) ==
    declPrint(d, idents,
              [k \in 1..Len(idents) |-> mapAt(points, idents[k].path, noIDKind)],
              links, scanner(fprint(d)))

declAnchors(d0, d, idents) ==
    declPoints(d, idents, generateAnchorPoints(d0), generateAnchorLinks(d0))

formatDeclHTML(d) ==
    declAnchors(d, rewriteDecl(d, maxStringSize, maxElements), inspectIdents(d))

-----------------------------------------------------------------------------
(* The declarations: a const or var declaration of at most MaxSpecs specs, *)
(* or the declaration of a struct type of at most MaxFields fields, with   *)
(* doc comments of at most MaxDocLines lines.  A spec whose value is       *)
(* trimmed has no comment of its own.                                      *)

MaxSpecs == 2
MaxFields == 2
MaxDocLines == 2

Repeat(x, n) == [k \in 1..n |-> x]

docText == <<"/", "/", " ", "d">>
lineText == <<"/", "/", " ", "c">>

DocGroup(n) == Repeat(Comment(0, docText), n)
LineGroup == <<Comment(0, lineText)>>

IntType == Ident(<<"i", "n", "t">>, "nil")
NamedType == Ident(<<"T">>, "top")
Value == Ident(<<"v">>, "top")
Element == Ident(<<"e">>, "top")
Number(pos) == BasicLit("INT", <<"1">>, pos)
String(q, n, pos) == BasicLit("STRING", <<q>> \o Repeat("a", n) \o <<q>>, pos)
RawString(pos) == BasicLit("STRING", <<"BQ", "a", "\n", "b", "BQ">>, pos)

NameLetters == <<"A", "B", "C", "D", "E", "F", "G", "H">>
Name(i) == Ident(<<NameLetters[i]>>, "top")

\* the value specs, without their doc comments, that declare a and b
ValueShapes(a, b) ==
    << ValueSpec(<<>>, <<a>>, <<IntType>>, <<>>, <<>>),
       ValueSpec(<<>>, <<a, b>>, <<NamedType>>, <<>>, <<>>),
       ValueSpec(<<>>, <<a>>, <<>>, <<Value>>, <<>>),
       ValueSpec(<<>>, <<a>>, <<>>, <<String("\"", maxStringSize, 1)>>, <<>>),
       ValueSpec(<<>>, <<a>>, <<>>, <<String("\"", maxStringSize + 1, 1)>>, <<>>),
       ValueSpec(<<>>, <<a>>, <<>>, <<String("BQ", maxStringSize + 1, 1)>>, <<>>),
       ValueSpec(<<>>, <<a>>, <<>>, <<RawString(1)>>, <<>>),
       ValueSpec(<<>>, <<a>>, <<>>, <<CompositeLit(NamedType, <<>>, 1)>>, <<>>),
       ValueSpec(<<>>, <<a>>, <<>>,
                 <<CompositeLit(NamedType, Repeat(Element, maxElements), 1)>>, <<>>),
       ValueSpec(<<>>, <<a>>, <<>>,
                 <<CompositeLit(NamedType, Repeat(Element, maxElements + 1), 1)>>, <<>>),
       ValueSpec(<<>>, <<a>>, <<>>,
                 <<CompositeLit(NamedType, Repeat(Number(1), maxElements + 1), 1)>>, <<>>),
       ValueSpec(<<>>, <<a>>, <<>>,
                 <<CompositeLit(NamedType,
                                <<String("\"", maxStringSize + 1, 1)>>, 1)>>, <<>>),
       ValueSpec(<<>>, <<a>>, <<IntType>>, <<>>, LineGroup),
       ValueSpec(<<>>, <<a, b>>, <<>>,
                 <<String("\"", maxStringSize + 1, 1),
                   CompositeLit(NamedType, Repeat(Element, maxElements + 1), 2)>>,
                 <<>>) >>

NumValueShapes == Len(ValueShapes(Name(1), Name(2)))

\* the fields, without their doc comments, that declare a and b
FieldShapes(a, b) ==
    << Field(<<>>, <<a>>, IntType, <<>>, <<>>),
       Field(<<>>, <<a>>, NamedType, <<String("BQ", 1, 1)>>, <<>>),
       Field(<<>>, <<a>>, IntType, <<String("BQ", maxStringSize + 1, 1)>>, <<>>),
       Field(<<>>, <<a, b>>, IntType, <<>>, LineGroup) >>

NumFieldShapes == Len(FieldShapes(Name(1), Name(2)))

withDoc(n, dn) == [n EXCEPT !.Doc = DocGroup(dn)]

\* spec or field i of shape s with a doc comment of dn lines
ValueSpecOf(i, s, dn) == withDoc(ValueShapes(Name(2 * i - 1), Name(2 * i))[s], dn)
FieldOf(i, s, dn) == withDoc(FieldShapes(Name(2 * i - 1), Name(2 * i))[s], dn)

\* var ( ... ) or const ( ... ) of m specs
GroupedDecl(n, tok, m, s, dn, bl) ==
    GenDecl(DocGroup(n), tok, TRUE,
            [i \in 1..m |-> ValueSpecOf(i, s[i], dn[i])],
            [i \in 1..m |-> i > 1 /\ bl[i]])

\* var or const of one spec, without parentheses
SingleDecl(n, tok, s) ==
    GenDecl(DocGroup(n), tok, FALSE, <<ValueSpecOf(1, s, 0)>>, <<FALSE>>)

\* type T struct { ... } of m fields
TypeDecl(n, m, s, dn) ==
    GenDecl(DocGroup(n), "type", FALSE,
            <<TypeSpec(<<>>, NamedType,
                       StructType([i \in 1..m |-> FieldOf(i, s[i], dn[i])]))>>,
            <<FALSE>>)

IsDecl(d) ==
    \/ \E m \in 1..MaxSpecs, n \in 0..MaxDocLines, tok \in {"var", "const"} :
         \E s \in [1..m -> 1..NumValueShapes], dn \in [1..m -> 0..MaxDocLines],
            bl \in [2..m -> BOOLEAN] :
             d = GroupedDecl(n, tok, m, s, dn, bl)
    \/ \E n \in 0..MaxDocLines, tok \in {"var", "const"}, s \in 1..NumValueShapes :
         d = SingleDecl(n, tok, s)
    \/ \E m \in 1..MaxFields, n \in 0..MaxDocLines :
         \E s \in [1..m -> 1..NumFieldShapes], dn \in [1..m -> 0..MaxDocLines] :
             d = TypeDecl(n, m, s, dn)

InitDecl ==
    /\ IsDecl(decl)
    /\ declOut = <<>>
    /\ TreeIdle
    /\ LineIdle /\ LinkIdle /\ DocIdle /\ BlocksIdle /\ UnitIdle
    /\ pc = "decl"

\* one call of formatDeclHTML(decl, idr); rewriteDecl changes decl in place.
\* A panic of SafeGoID in generateAnchorPoints ends the call before
\* anything else is done.
FormatDeclHTML ==
    /\ pc = "decl"
    /\ IF panicked(generateAnchorPoints(decl))
       THEN /\ pc' = "panic"
            /\ UNCHANGED declVars
       ELSE /\ declOut' = formatDeclHTML(decl)
            /\ decl' = rewriteDecl(decl, maxStringSize, maxElements)
            /\ pc' = "formatted"
    /\ UNCHANGED <<lineVars, linkVars, treeVars, docVars, blockVars, unitVars>>

NextDecl == FormatDeclHTML

SpecDecl == InitDecl /\ [][NextDecl]_vars

\* --- what the call did, read from decl and declOut ---

formatted == pc = "formatted"

\* the token.IDENT tokens of the source, in the order of the scanner
IdentTokens == SelectSeq(declOut.toks, LAMBDA t : t.tok = "IDENT")

\* C1 as stated: the scanner yields as many identifier tokens from the
\* reformatted source as the traversal of the tree collected identifier
\* nodes, and the k-th token is the identifier of the k-th node, also when
\* rewriteDecl trimmed a literal.
C1_SameIdentifiers ==
    formatted =>
        /\ Len(IdentTokens) = Len(declOut.idents)
        /\ \A k \in 1..Len(IdentTokens) :
               k <= Len(declOut.idents)
                   => IdentTokens[k].lit = declOut.idents[k].id.Name

\* the lines of the source, numbered from 1
LineNumbers == 1..Len(declOut.lineTypes)

\* the first line of the maximal run of comment-only lines right before
\* line i, line i itself when there is no such run
RunStartOf(i) ==
    CHOOSE j \in 1..i :
        /\ \A k \in j..(i - 1) : declOut.lineTypes[k] = commentType
        /\ j = 1 \/ declOut.lineTypes[j - 1] /= commentType

\* the next line carries no anchor, or line i is the last line
NextUnanchored(i) ==
    i = Len(declOut.scanned) \/ declOut.scanned[i + 1] = <<>>

\* the line the anchors of line i belong to after the pass
HoistTarget(i) == IF NextUnanchored(i) THEN RunStartOf(i) ELSE i

\* C2: after the hoist pass the anchors of every line whose next line
\* carries no anchor (or which is the last line) are on the first line of
\* the maximal run of comment-only lines right before that line, on the
\* line itself when there is no such run; the anchors of a line whose next
\* line carries an anchor are not moved; a line with code and a comment is
\* not comment-only; no other line carries an anchor.
C2_Hoist ==
    formatted =>
        /\ \A i \in LineNumbers :
               declOut.scanned[i] /= <<>>
                   => /\ declOut.anchorLines[HoistTarget(i)] = declOut.scanned[i]
                      /\ HoistTarget(i) /= i => declOut.anchorLines[i] = <<>>
        /\ \A j \in LineNumbers :
               declOut.anchorLines[j] /= <<>>
                   => \E i \in LineNumbers :
                          declOut.scanned[i] /= <<>> /\ HoistTarget(i) = j

\* C2 witness: one call moved the anchors of a line up over two comment
\* lines, left the anchors of a line before an anchored line in place, and
\* stopped a run at a line that carries code and a comment.
C2_Witness ==
    /\ formatted
    /\ \E i \in LineNumbers :
           /\ declOut.scanned[i] /= <<>> /\ NextUnanchored(i)
           /\ RunStartOf(i) = i - 2
           /\ declOut.anchorLines[i - 2] = declOut.scanned[i]
           /\ declOut.anchorLines[i] = <<>>
    /\ \E i \in LineNumbers :
           /\ declOut.scanned[i] /= <<>> /\ ~NextUnanchored(i)
           /\ declOut.anchorLines[i] = declOut.scanned[i]
    /\ \E i \in LineNumbers :
           /\ declOut.scanned[i] /= <<>> /\ i > 1
           /\ declOut.lineTypes[i - 1] = codeType + commentType
           /\ declOut.anchorLines[i] = declOut.scanned[i]

\* the literals of an expression, the expression included
RECURSIVE exprNodes(_)
exprNodes(e) ==
    IF e.node = "CompositeLit"
    THEN <<e>> \o Concat([j \in 1..Len(e.Elts) |-> exprNodes(e.Elts[j])])
    ELSE <<e>>

specNodes(sp) ==
    IF sp.node = "ValueSpec"
    THEN Concat([k \in 1..Len(sp.Values) |-> exprNodes(sp.Values[k])])
    ELSE Concat([f \in 1..Len(sp.Type.Fields) |-> sp.Type.Fields[f].Tag])

declNodes(d) == Concat([i \in 1..Len(d.Specs) |-> specNodes(d.Specs[i])])

\* C10 as stated: after the trimming the declaration contains no string
\* literal longer than maxStringSize and no composite literal with more
\* than maxElements elements.
C10_NothingLong ==
    formatted =>
        \A k \in 1..Len(declNodes(decl)) :
            /\ (declNodes(decl)[k].node = "BasicLit"
                /\ declNodes(decl)[k].Kind = "STRING")
                   => Len(declNodes(decl)[k].Value) - 2 <= maxStringSize
            /\ declNodes(decl)[k].node = "CompositeLit"
                   => Len(declNodes(decl)[k].Elts) <= maxElements

-----------------------------------------------------------------------------
(* rewriteDecl applied again to its own result (linkify.go:495-554), with  *)
(* the limits formatDeclHTML calls it with (linkify.go:384-388).           *)

\* the number of successive calls of a behaviour
MaxRewrites == 2

Limits(maxStr, maxElts) == [maxStringSize |-> maxStr, maxElements |-> maxElts]

\* the limits of the one call of rewriteDecl in the program
Thresholds == {Limits(maxStringSize, maxElements)}

InitRewrite ==
    /\ IsDecl(decl)
    /\ declOut = <<>>
    /\ limits \in Thresholds
    /\ rewOut = <<>>
    /\ exSrc = <<>> /\ codeOut = <<>> /\ thr = <<>>
    /\ TreeIdle
    /\ LineIdle /\ LinkIdle /\ DocIdle /\ BlocksIdle
    /\ pc = "rewrite"

\* one call of rewriteDecl(decl, maxStringSize, maxElements); the tree is
\* changed in place, rewOut keeps what it was after each call
RewriteDecl ==
    /\ pc = "rewrite"
    /\ Len(rewOut) < MaxRewrites
    /\ decl' = rewriteDecl(decl, limits.maxStringSize, limits.maxElements)
    /\ rewOut' = Append(rewOut, decl')
    /\ UNCHANGED <<declOut, limits, exSrc, codeOut, thr, pc>>
    /\ UNCHANGED <<lineVars, linkVars, treeVars, docVars, blockVars>>

NextRewrite == RewriteDecl

SpecRewrite == InitRewrite /\ [][NextRewrite]_vars

\* a comment rewriteLongValue attached
isNote(c) == Len(c.Text) > 1 /\ c.Text[2] = "*"

specNotes(sp) ==
    IF sp.node = "ValueSpec" THEN SelectSeq(sp.Comment, isNote)
    ELSE Concat([f \in 1..Len(sp.Type.Fields) |->
                    SelectSeq(sp.Type.Fields[f].Comment, isNote)])

declNotes(d) == Concat([i \in 1..Len(d.Specs) |-> specNotes(d.Specs[i])])

\* C11: a second rewriteDecl with the same limits changes nothing of the
\* result of the first: no literal is altered again and no further comment
\* is attached.
C11_Idempotent ==
    Len(rewOut) = 2
        => /\ rewOut[2] = rewOut[1]
           /\ declNodes(rewOut[2]) = declNodes(rewOut[1])
           /\ declNotes(rewOut[2]) = declNotes(rewOut[1])

\* the first call trimmed a string and a composite literal, the second
\* call has been made
C11_Witness ==
    /\ Len(rewOut) = 2
    /\ limits = Limits(maxStringSize, maxElements)
    /\ \E a, b \in 1..Len(declNotes(rewOut[1])) :
          /\ declNotes(rewOut[1])[a].Text = stringNote(maxStringSize + 1)
          /\ declNotes(rewOut[1])[b].Text = elementsNote(maxElements + 1)
    /\ \E k \in 1..Len(declNodes(rewOut[2])) :
          declNodes(rewOut[2])[k].node = "BasicLit"
          /\ declNodes(rewOut[2])[k].Value = <<"BQ", "BQ">>

-----------------------------------------------------------------------------
(* Example code: codeString and codeHTML (linkify.go:164-254).             *)

min2(a, b) == IF a < b THEN a ELSE b

RECURSIVE trimRightNL(_)
trimRightNL(s) ==
    IF Len(s) > 0 /\ s[Len(s)] = "\n" THEN trimRightNL(Take(s, Len(s) - 1))
    ELSE s

RECURSIVE trimLeftNL(_)
trimLeftNL(s) ==
    IF Len(s) > 0 /\ s[1] = "\n" THEN trimLeftNL(Tail(s)) ELSE s

\* strings.Trim(s, "\n")
trimNL(s) == trimRightNL(trimLeftNL(s))

\* the least offset from i on at which p starts in s, or len(s)
RECURSIVE indexFrom(_, _, _)
indexFrom(s, i, p) ==
    IF i >= Len(s) THEN Len(s)
    ELSE IF HasPrefixAt(s, i, p) THEN i
    ELSE indexFrom(s, i + 1, p)

\* strings.Replace(s[i:], old, new, -1) for a non-empty old
RECURSIVE replaceFrom(_, _, _, _)
replaceFrom(s, i, old, new) ==
    IF i >= Len(s) THEN <<>>
    ELSE IF HasPrefixAt(s, i, old)
    THEN new \o replaceFrom(s, i + Len(old), old, new)
    ELSE <<At(s, i)>> \o replaceFrom(s, i + 1, old, new)

Replace(s, old, new) == replaceFrom(s, 0, old, new)

\* indentLength(s): the number of spaces and tabs s starts with
indentLength(s) == SpanWhile(s, 0, {" ", "\t"})

\* the test of linkify.go:204
isBlock(src) ==
    /\ Len(src) >= 4
    /\ HasPrefixAt(src, 0, <<"{", "\n">>)
    /\ HasPrefixAt(src, Len(src) - 2, <<"\n", "}">>)

\* strings.Trim(src[2:len(src)-2], "\n")
blockBody(src) == trimNL(Slice(src, 2, Len(src) - 2))

\* indent and src after linkify.go:203-210
blockIndent(src) ==
    IF isBlock(src) THEN Take(blockBody(src), indentLength(blockBody(src)))
    ELSE <<>>

stripBlock(src) ==
    IF isBlock(src) THEN Drop(blockBody(src), indentLength(blockBody(src)))
    ELSE src

\* --- go/scanner with ScanComments, for sources of identifiers that are no
\* --- keywords, parentheses, braces, comments and terminated strings ---

Token(pos, tok, lit) == [pos |-> pos, tok |-> tok, lit |-> lit]

\* Scanner.skipWhitespace: a line break is white space unless a semicolon
\* is to be inserted at it
RECURSIVE skipWhitespace(_, _, _)
skipWhitespace(src, i, insertSemi) ==
    IF i < Len(src) /\ (\/ At(src, i) \in {" ", "\t", "\r"}
                        \/ At(src, i) = "\n" /\ ~insertSemi)
    THEN skipWhitespace(src, i + 1, insertSemi)
    ELSE i

isCommentAt(src, i) ==
    /\ i + 1 < Len(src)
    /\ At(src, i) = "/"
    /\ At(src, i + 1) \in {"/", "*"}

\* the offset after the comment that starts at offset i
commentEnd(src, i) ==
    IF At(src, i + 1) = "/" THEN indexFrom(src, i, <<"\n">>)
    ELSE min2(Len(src), indexFrom(src, i + 2, <<"*", "/">>) + 2)

\* Scanner.findLineEnd for the comment at offset i: the line ends in this
\* comment or after the comments that follow it on the line
RECURSIVE findLineEnd(_, _)
RECURSIVE afterComment(_, _)
findLineEnd(src, i) ==
    IF ~isCommentAt(src, i) THEN FALSE
    ELSE IF At(src, i + 1) = "/" THEN TRUE
    ELSE IF \E k \in (i + 2)..(commentEnd(src, i) - 1) : At(src, k) = "\n"
    THEN TRUE
    ELSE afterComment(src, skipWhitespace(src, commentEnd(src, i), TRUE))

afterComment(src, j) ==
    IF j >= Len(src) \/ At(src, j) = "\n" THEN TRUE
    ELSE IF At(src, j) /= "/" THEN FALSE
    ELSE findLineEnd(src, j)

\* the offset after the string literal that starts at offset i
stringEnd(src, i) == min2(Len(src), indexFrom(src, i + 1, <<At(src, i)>>) + 1)

\* the tokens a semicolon is inserted after, of those of one character
ClosingTokens == {")", "]", "}"}

\* Scanner.Scan, called until EOF: the tokens from offset i on
RECURSIVE scanFrom(_, _, _)
RECURSIVE scanAt(_, _, _)
scanFrom(src, i, insertSemi) ==
    scanAt(src, skipWhitespace(src, i, insertSemi), insertSemi)

scanAt(src, j, insertSemi) ==
    IF j >= Len(src)
    THEN (IF insertSemi THEN <<Token(j, "SEMICOLON", <<"\n">>)>> ELSE <<>>)
         \o <<Token(j, "EOF", <<>>)>>
    ELSE IF At(src, j) = "\n"
    THEN <<Token(j, "SEMICOLON", <<"\n">>)>> \o scanFrom(src, j + 1, FALSE)
    ELSE IF At(src, j) \in IdentStart
    THEN <<Token(j, "IDENT", Slice(src, j, SpanWhile(src, j, IdentCont)))>>
         \o scanFrom(src, SpanWhile(src, j, IdentCont), TRUE)
    ELSE IF At(src, j) \in {"\"", "BQ"}
    THEN <<Token(j, "STRING", Slice(src, j, stringEnd(src, j)))>>
         \o scanFrom(src, stringEnd(src, j), TRUE)
    ELSE IF isCommentAt(src, j)
    THEN IF insertSemi /\ findLineEnd(src, j)
         THEN <<Token(j, "SEMICOLON", <<"\n">>)>> \o scanAt(src, j, FALSE)
         ELSE <<Token(j, "COMMENT", Slice(src, j, commentEnd(src, j)))>>
              \o scanFrom(src, commentEnd(src, j), FALSE)
    ELSE <<Token(j, At(src, j), <<At(src, j)>>)>>
         \o scanFrom(src, j + 1, At(src, j) \in ClosingTokens)

\* --- exampleOutputRx: a comment that holds //, white space, and then
\* --- "output:" or "unordered output:" in letters of either case ---

LowerLetters == <<"a","b","c","d","e","f","g","h","i","j","k","l","m",
                  "n","o","p","q","r","s","t","u","v","w","x","y","z">>
UpperLetters == <<"A","B","C","D","E","F","G","H","I","J","K","L","M",
                  "N","O","P","Q","R","S","T","U","V","W","X","Y","Z">>

toLower(c) ==
    IF c \in Upper
    THEN LowerLetters[CHOOSE k \in 1..Len(UpperLetters) : UpperLetters[k] = c]
    ELSE c

\* strings.EqualFold(s[i:i+len(p)], p) for a lower-case p
foldPrefixAt(s, i, p) ==
    /\ i + Len(p) <= Len(s)
    /\ \A k \in 1..Len(p) : toLower(s[i + k]) = p[k]

outputWord == <<"o", "u", "t", "p", "u", "t", ":">>
unorderedWord == <<"u", "n", "o", "r", "d", "e", "r", "e", "d", " ">>

markerAt(lit, w) ==
    \/ foldPrefixAt(lit, w, outputWord)
    \/ /\ foldPrefixAt(lit, w, unorderedWord)
       /\ foldPrefixAt(lit, w + Len(unorderedWord), outputWord)

exampleOutputRx(lit) ==
    \E i \in 0..(Len(lit) - 2) :
        /\ HasPrefixAt(lit, i, <<"/", "/">>)
        /\ \E w \in (i + 2)..SpanWhile(lit, i + 2, SpaceRx) : markerAt(lit, w)

\* --- codeHTML(src, codeTmpl): the elements handed to the template.  From
\* --- and To are the offsets of the scanned source the element was copied
\* --- from (they are no fields of the Go type) ---

codeElement(text, comment, from, to) ==
    [Text |-> text, Comment |-> comment, From |-> from, To |-> to]

CodeState(codeEls, lastOffset, outputOffset) ==
    [els |-> codeEls, lastOffset |-> lastOffset, outputOffset |-> outputOffset]

\* linkify.go:225-227
prevElement(src, indent, st, t) ==
    codeElement(Replace(Slice(src, st.lastOffset, t.pos), indent, <<"\n">>),
                FALSE, st.lastOffset, t.pos)

\* case token.COMMENT; lit is the literal after strings.Replace
codeComment(src, indent, st, t, lit) ==
    CodeState(st.els \o <<prevElement(src, indent, st, t),
                          codeElement(lit, TRUE, t.pos, t.pos + Len(t.lit))>>,
              t.pos + Len(lit),
              IF exampleOutputRx(t.lit) THEN Len(st.els) + 1
              ELSE st.outputOffset)

\* case token.STRING
codeStringLit(src, indent, st, t) ==
    CodeState(st.els \o <<prevElement(src, indent, st, t),
                          codeElement(t.lit, FALSE, t.pos, t.pos + Len(t.lit))>>,
              t.pos + Len(t.lit), st.outputOffset)

\* token.EOF and every other token
codeOther(src, indent, st, t) ==
    CodeState(Append(st.els, prevElement(src, indent, st, t)),
              t.pos, st.outputOffset)

codeToken(src, indent, st, t) ==
    IF t.tok = "COMMENT"
    THEN codeComment(src, indent, st, t, Replace(t.lit, indent, <<"\n">>))
    ELSE IF t.tok = "STRING" THEN codeStringLit(src, indent, st, t)
    ELSE codeOther(src, indent, st, t)

\* the scan loop (linkify.go:221-244) from token k on
RECURSIVE codeLoop(_, _, _, _, _)
codeLoop(src, indent, toks, k, st) ==
    IF k > Len(toks) THEN st
    ELSE codeLoop(src, indent, toks, k + 1, codeToken(src, indent, st, toks[k]))

\* a truncate that keeps everything
truncate_None(st) == st.els

\* linkify.go:246-248
truncate(st) ==
    IF st.outputOffset >= 0 THEN Take(st.els, st.outputOffset) ELSE st.els

\* linkify.go:250-252
trimLast(codeEls) ==
    IF Len(codeEls) > 0
    THEN [codeEls EXCEPT ![Len(codeEls)].Text = trimRightNL(@)]
    ELSE codeEls

codeScan(src, indent) ==
    codeLoop(src, indent, scanFrom(src, 0, FALSE), 1, CodeState(<<>>, 0, -1))

codeHTML(src) ==
    trimLast(truncate(codeScan(stripBlock(src), <<"\n">> \o blockIndent(src))))

\* --- Renderer.codeString and Renderer.codeHTML.  A node is the text
\* --- format.Node writes for it, or bad when format.Node fails ---

Node(text, bad) == [text |-> text, bad |-> bad]

CodeResult(str, err) == [str |-> str, err |-> err]

formatNode(n) ==
    IF n.bad THEN CodeResult(<<>>, TRUE) ELSE CodeResult(n.text, FALSE)

\* a codeString that looks at Play before it looks at Code
codeString_PlayFirst(ex) ==
    IF ex.IsNil THEN CodeResult(<<>>, TRUE)
    ELSE IF ex.Play /= <<>> THEN formatNode(ex.Play[1])
    ELSE IF ex.Code = <<>> THEN CodeResult(<<>>, TRUE)
    ELSE formatNode(ex.Code[1])

codeString(ex) ==
    IF ex.IsNil \/ ex.Code = <<>> THEN CodeResult(<<>>, TRUE)
    ELSE IF ex.Play /= <<>> THEN formatNode(ex.Play[1])
    ELSE formatNode(ex.Code[1])

\* the fragment for "Error rendering example code."
errorPlaceholder == [placeholder |-> TRUE, els |-> <<>>]

Renderer_codeHTML(ex) ==
    IF codeString(ex).err THEN errorPlaceholder
    ELSE [placeholder |-> FALSE, els |-> codeHTML(codeString(ex).str)]

\* --- the examples: at most MaxStmts lines of code, as the body of the
\* --- example function or as a file ---

MaxStmts == 4

NLs == <<"\n">>
Tab == <<"\t">>

\* the lines: kind k at indentation ind, without the indentation of its
\* first line
LineKinds(ind) ==
    << <<"x", "(", ")">>,
       <<"/", "/", " ", "c">>,
       <<"/", "/", " ", "O", "u", "t", "p", "u", "t", ":">>,
       <<"/", "/", " ", "u", "n", "o", "r", "d", "e", "r", "e", "d", " ",
         "o", "u", "t", "p", "u", "t", ":">>,
       <<"/", "*">> \o NLs \o ind \o <<"\t", "c">> \o NLs \o ind \o <<"*", "/">>,
       <<"x", "(", "BQ", "a", "\n", "\t", "b", "BQ", ")">>,
       <<>>,
       <<"x", "(", ")", " ", "/", "/", " ", "c">> >>

NumLineKinds == Len(LineKinds(<<>>))
BlankKind == 7
BlockCommentKind == 5

\* line k of the source, with its indentation and its line break
sourceLine(k, ind) ==
    (IF k = BlankKind THEN <<>> ELSE ind \o LineKinds(ind)[k]) \o NLs

\* what format.Node writes for a block statement and for other code
blockText(ks) ==
    <<"{", "\n">> \o Flatten([i \in 1..Len(ks) |-> sourceLine(ks[i], Tab)])
    \o <<"}">>
fileText(ks) == Flatten([i \in 1..Len(ks) |-> sourceLine(ks[i], <<>>)])

\* kinds and block are not fields of doc.Example: they say what the
\* example was made of
Example(isNil, code, play, ks, block) ==
    [IsNil |-> isNil, Code |-> code, Play |-> play, kinds |-> ks,
     block |-> block]

ExampleOf(ks, variant) ==
    IF variant = "block"
    THEN Example(FALSE, <<Node(blockText(ks), FALSE)>>, <<>>, ks, TRUE)
    ELSE IF variant = "file"
    THEN Example(FALSE, <<Node(fileText(ks), FALSE)>>, <<>>, ks, FALSE)
    ELSE IF variant = "play"
    THEN Example(FALSE, <<Node(blockText(ks), FALSE)>>,
                 <<Node(fileText(ks), FALSE)>>, ks, FALSE)
    ELSE IF variant = "badCode"
    THEN Example(FALSE, <<Node(blockText(ks), TRUE)>>, <<>>, ks, TRUE)
    ELSE IF variant = "badPlay"
    THEN Example(FALSE, <<Node(blockText(ks), FALSE)>>,
                 <<Node(fileText(ks), TRUE)>>, ks, FALSE)
    ELSE IF variant = "noCode"
    THEN Example(FALSE, <<>>, <<Node(fileText(ks), FALSE)>>, ks, FALSE)
    ELSE IF variant = "nothing"
    THEN Example(FALSE, <<>>, <<>>, ks, FALSE)
    ELSE Example(TRUE, <<>>, <<>>, ks, FALSE)

Variants ==
    {"block", "file", "play", "badCode", "badPlay", "noCode", "nothing", "nil"}

\* a block neither starts nor ends with a blank line
IsExample(ex) ==
    \E n \in 0..MaxStmts, variant \in Variants :
        \E ks \in [1..n -> 1..NumLineKinds] :
            /\ variant \notin {"block", "file"} => n <= 1
            /\ (variant = "block" /\ n > 0)
                   => ks[1] /= BlankKind /\ ks[n] /= BlankKind
            /\ ex = ExampleOf(ks, variant)

InitCode ==
    /\ IsExample(exSrc)
    /\ codeOut = <<>>
    /\ limits = <<>> /\ rewOut = <<>> /\ thr = <<>>
    /\ TreeIdle
    /\ LineIdle /\ LinkIdle /\ DocIdle /\ BlocksIdle /\ DeclIdle
    /\ pc = "code"

\* one call of r.codeHTML(ex)
CodeHTML ==
    /\ pc = "code"
    /\ codeOut' = Renderer_codeHTML(exSrc)
    /\ pc' = "done"
    /\ UNCHANGED <<exSrc, limits, rewOut, thr>>
    /\ UNCHANGED <<lineVars, linkVars, treeVars, docVars, blockVars, declVars>>

NextCode == CodeHTML

SpecCode == InitCode /\ [][NextCode]_vars

\* --- what the call did, read from exSrc and codeOut ---

rendered == pc = "done" /\ ~codeOut.placeholder

\* the source codeHTML scans and its tokens
scannedSrc == stripBlock(codeString(exSrc).str)
scannedToks == scanFrom(scannedSrc, 0, FALSE)

\* the tokens of toks that are output markers
MarkersOf(toks) ==
    {k \in 1..Len(toks) :
        toks[k].tok = "COMMENT" /\ exampleOutputRx(toks[k].lit)}

Markers == MarkersOf(scannedToks)

LastOf(ms) == CHOOSE k \in ms : \A j \in ms : j <= k

\* no fragment holds source text from the offset of token t on
CutAt(t) ==
    \A e \in 1..Len(codeOut.els) : codeOut.els[e].To <= t.pos

\* the comment that is token t is a fragment
KeptComment(t) ==
    \E e \in 1..Len(codeOut.els) :
        /\ codeOut.els[e].Comment
        /\ codeOut.els[e].From = t.pos
        /\ codeOut.els[e].Text = t.lit

CutAtEvery(toks) == \A k \in MarkersOf(toks) : CutAt(toks[k])

CutAtLast(toks, ms) ==
    ms /= {} => /\ CutAt(toks[LastOf(ms)])
                /\ \A k \in ms : k < LastOf(ms) => KeptComment(toks[k])

\* C12 as stated: for every comment that matches the output marker, the
\* fragment list holds neither that comment nor any fragment that follows
\* it in the source, for any number of marker comments.
C12_AsStated ==
    rendered => CutAtEvery(scannedToks)

\* C12: when comments match the output marker, the fragment list holds
\* neither the last of them nor any fragment that follows it in the
\* source; the marker comments before the last one stay in the list.
C12_LastMarker ==
    rendered => LET toks == scannedToks
                IN  CutAtLast(toks, MarkersOf(toks))

CodeBetween(toks, ms) ==
    /\ Cardinality(ms) = 2
    /\ \E k \in 1..Len(toks) :
          /\ toks[k].tok = "IDENT"
          /\ \E a, b \in ms : a < k /\ k < b

\* an example with two marker comments and code between them has been
\* rendered
C12_Witness ==
    /\ rendered
    /\ LET toks == scannedToks IN CodeBetween(toks, MarkersOf(toks))
    /\ Len(codeOut.els) > 0

\* the text of the fragments, one after the other
codeText == Flatten([e \in 1..Len(codeOut.els) |-> codeOut.els[e].Text])

\* the formatted code without the braces and the indentation of a block
\* and without trailing blank lines
plainText == trimRightNL(fileText(exSrc.kinds))

\* C13 as stated: when no comment matches the output marker, the texts of
\* the fragments one after the other are the formatted code without
\* trailing blank lines, for the body of a block without its braces and
\* its indentation, with multi-line string literals as they are.
C13_PlainText ==
    (rendered /\ Markers = {}) => codeText = plainText

\* C18: r.codeHTML(ex) returns the error placeholder, and codeString an
\* error and no code, exactly when the example is nil, its code is nil or
\* formatting fails; otherwise it returns the fragments of the code.
C18_Placeholder ==
    pc = "done" =>
        /\ (exSrc.IsNil \/ exSrc.Code = <<>>)
               => (codeString(exSrc) = CodeResult(<<>>, TRUE)
                   /\ codeOut = errorPlaceholder)
        /\ (~exSrc.IsNil /\ exSrc.Code /= <<>>
            /\ (IF exSrc.Play /= <<>> THEN exSrc.Play[1].bad
                ELSE exSrc.Code[1].bad))
               => (codeString(exSrc) = CodeResult(<<>>, TRUE)
                   /\ codeOut = errorPlaceholder)
        /\ (~exSrc.IsNil /\ exSrc.Code /= <<>>
            /\ ~(IF exSrc.Play /= <<>> THEN exSrc.Play[1].bad
                 ELSE exSrc.Code[1].bad))
               => (~codeString(exSrc).err /\ ~codeOut.placeholder)

\* an example without code and with a playable file has been given the
\* placeholder
C18_Witness ==
    /\ pc = "done"
    /\ ~exSrc.IsNil /\ exSrc.Code = <<>> /\ exSrc.Play /= <<>>
    /\ ~exSrc.Play[1].bad /\ Len(exSrc.Play[1].text) > 0
    /\ codeOut = errorPlaceholder

-----------------------------------------------------------------------------
(* The declarations for the anchors: a struct or an interface type of at   *)
(* most MaxMembers members, named or embedded; a function or a method with *)
(* a body of at most MaxBodyStmts assignments, written on lines of their   *)
(* own in the source; a const or var declaration whose type or values are  *)
(* selectors.  The package io is imported; v, T and E are declared at the  *)
(* top level of the page; x is local.                                      *)

MaxMembers == 2
MaxBodyStmts == 2

PkgName == Ident(<<"i", "o">>, "pkg")
SelName == Ident(<<"R">>, "nil")
PredeclaredSel == Ident(<<"s", "t", "r", "i", "n", "g">>, "nil")
Embedded == Ident(<<"E">>, "top")
Local == Ident(<<"x">>, "other")
BadName == Ident(<<"a", "-", "b">>, "top")

Qualified == SelectorExpr(PkgName, SelName)
QualifiedPredeclared == SelectorExpr(PkgName, PredeclaredSel)
FieldOfValue == SelectorExpr(Value, PredeclaredSel)

\* the names a declaration gives to what it declares
DeclaredNames == <<NamedType, IntType, Local, BadName>>

Param(names, type) == Field(<<>>, names, type, <<>>, <<>>)

NoParams == FuncType(<<>>, <<>>)
SomeParams == FuncType(<<Param(<<Local>>, IntType)>>, <<Param(<<>>, NamedType)>>)

\* the members of a struct type that declare a and b
StructMembers(a, b) ==
    << Param(<<a>>, IntType),
       Param(<<a, b>>, NamedType),
       Param(<<>>, Embedded),
       Param(<<>>, StarExpr(Embedded)),
       Param(<<>>, Qualified),
       Param(<<>>, StarExpr(Qualified)),
       Param(<<a>>, Qualified),
       Param(<<a>>, NoParams),
       Param(<<BadName>>, IntType),
       Param(<<>>, BadName) >>

\* the members of an interface type that declare a
InterfaceMembers(a, b) ==
    << Param(<<a>>, NoParams),
       Param(<<a>>, SomeParams),
       Param(<<>>, Embedded),
       Param(<<>>, Qualified),
       Param(<<BadName>>, NoParams),
       Param(<<>>, BadName) >>

Members(kind, a, b) ==
    IF kind = "struct" THEN StructMembers(a, b) ELSE InterfaceMembers(a, b)

NumMembers(kind) == Len(Members(kind, Name(1), Name(2)))

MemberOf(kind, i, s) == Members(kind, Name(2 * i - 1), Name(2 * i))[s]

\* type nm struct { ... } or type nm interface { ... } of m members
AnchorTypeDecl(nm, kind, m, s) ==
    GenDecl(<<>>, "type", FALSE,
            <<TypeSpec(<<>>, DeclaredNames[nm],
                       IF kind = "struct"
                       THEN StructType([i \in 1..m |-> MemberOf(kind, i, s[i])])
                       ELSE InterfaceType([i \in 1..m |-> MemberOf(kind, i, s[i])]))>>,
            <<FALSE>>)

\* the statements of a body
StmtShapes ==
    << AssignStmt(<<Local>>, "DEFINE", <<Value>>),
       AssignStmt(<<IntType>>, "DEFINE", <<Qualified>>),
       AssignStmt(<<NamedType, Local>>, "ASSIGN", <<Value, IntType>>),
       AssignStmt(<<SelectorExpr(Value, SelName)>>, "ASSIGN", <<FieldOfValue>>),
       AssignStmt(<<Qualified>>, "ASSIGN", <<Value>>) >>

\* the receivers: none, (x T), (x *T), (T), (x io.R), (x a-b)
RecvShapes ==
    << <<>>,
       <<Param(<<Local>>, NamedType)>>,
       <<Param(<<Local>>, StarExpr(NamedType))>>,
       <<Param(<<>>, NamedType)>>,
       <<Param(<<Local>>, Qualified)>>,
       <<Param(<<Local>>, BadName)>> >>

FuncTypes == <<NoParams, SomeParams>>

\* func recv nm type, without a body (b = 0) or with a body of b statements
AnchorFuncDecl(r, nm, t, b, s) ==
    FuncDecl(<<>>, RecvShapes[r], DeclaredNames[nm], FuncTypes[t],
             IF b = 0 THEN <<>>
             ELSE <<BlockStmt([i \in 1..b |-> StmtShapes[s[i]]])>>)

\* the value specs that declare a
SelectorSpecs(a) ==
    << ValueSpec(<<>>, <<a>>, <<>>, <<Qualified>>, <<>>),
       ValueSpec(<<>>, <<a>>, <<Qualified>>, <<>>, <<>>),
       ValueSpec(<<>>, <<a>>, <<>>, <<FieldOfValue>>, <<>>),
       ValueSpec(<<>>, <<a, Local>>, <<>>, <<Qualified, QualifiedPredeclared>>, <<>>),
       ValueSpec(<<>>, <<a>>, <<IntType>>, <<Value>>, <<>>) >>

AnchorValueDecl(tok, nm, s) ==
    GenDecl(<<>>, tok, FALSE, <<SelectorSpecs(DeclaredNames[nm])[s]>>, <<FALSE>>)

IsAnchorDecl(d) ==
    \/ \E nm \in 1..Len(DeclaredNames), kind \in {"struct", "interface"},
          m \in 1..MaxMembers :
         \E s \in [1..m -> 1..NumMembers(kind)] :
             d = AnchorTypeDecl(nm, kind, m, s)
    \/ \E r \in 1..Len(RecvShapes), nm \in 1..Len(DeclaredNames),
          t \in 1..Len(FuncTypes), b \in 0..MaxBodyStmts :
         \E s \in [1..b -> 1..Len(StmtShapes)] :
             d = AnchorFuncDecl(r, nm, t, b, s)
    \/ \E tok \in {"var", "const"}, nm \in 1..Len(DeclaredNames),
          s \in 1..Len(SelectorSpecs(Local)) :
         d = AnchorValueDecl(tok, nm, s)

InitAnchor ==
    /\ IsAnchorDecl(decl)
    /\ declOut = <<>>
    /\ TreeIdle
    /\ LineIdle /\ LinkIdle /\ DocIdle /\ BlocksIdle /\ UnitIdle
    /\ pc = "decl"

SpecAnchor == InitAnchor /\ [][NextDecl]_vars

-----------------------------------------------------------------------------
(* Properties of the anchors, stated on what one call of formatDeclHTML    *)
(* computed for the identifiers of the declaration.                        *)

\* p is the path q followed by more
below(q, p) == Len(p) > Len(q) /\ SubSeq(p, 1, Len(q)) = q

\* the last identifier, in source order, among the identifiers ids below q
lastBelow(ids, q, k) ==
    /\ below(q, ids[k].path)
    /\ \A j \in (k + 1)..Len(ids) : ~below(q, ids[j].path)

\* the anchor point the claim gives identifier k of the type spec ts
typePoint(ts, kind, ids, k) ==
    IF ids[k].path = <<1, 1>> THEN idKind(ts.Name.Name, "type")
    ELSE IF Len(ids[k].path) = 4 /\ below(<<1, 2>>, ids[k].path)
            /\ ids[k].path[4] <= Len(ts.Type.Fields[ids[k].path[3]].Names)
    THEN idKind(ts.Name.Name \o <<".">> \o ids[k].id.Name, kind)
    ELSE IF kind = "field" /\ below(<<1, 2>>, ids[k].path)
            /\ ts.Type.Fields[ids[k].path[3]].Names = <<>>
            /\ lastBelow(ids, <<1, 2, ids[k].path[3]>>, k)
    THEN idKind(ts.Name.Name \o <<".">> \o ids[k].id.Name, "field")
    ELSE noIDKind

\* C14: for a type declaration T the type name has the anchor T of kind
\* type, a named struct field F the anchor T.F of kind field, a named
\* interface method M the anchor T.M of kind method, an embedded struct
\* field the anchor T.B of kind field, B the base name of its type; an
\* embedded interface and every other identifier has no anchor point.
C14_TypeAnchors ==
    (pc = "formatted" /\ decl.node = "GenDecl" /\ decl.Tok = "type") =>
        \A k \in 1..Len(declOut.idents) :
            declOut.anchorPoints[k] =
                typePoint(decl.Specs[1],
                          IF decl.Specs[1].Type.node = "StructType"
                          THEN "field" ELSE "method",
                          declOut.idents, k)

\* type T struct { *io.R; C, D T } has been formatted
C14_Witness ==
    /\ pc = "formatted"
    /\ decl = AnchorTypeDecl(1, "struct", 2, <<6, 2>>)
    /\ \E k \in 1..Len(declOut.idents) :
           declOut.anchorPoints[k] = idKind(<<"T", ".", "R">>, "field")

\* the paths of the identifiers a function body declares on the left of
\* its assignments; b is the number of the body among the children
bodyDeclared(d, b) ==
    IF d.Body = <<>> THEN {}
    ELSE {<<b, s, k>> : s \in 1..Len(d.Body[1].List), k \in 1..2}
         \ {p \in {<<b, s, k>> : s \in 1..Len(d.Body[1].List), k \in 1..2} :
               \/ p[3] > Len(d.Body[1].List[p[2]].Lhs)
               \/ d.Body[1].List[p[2]].Lhs[p[3]].node /= "Ident"}

\* the paths of the identifiers the declaration d declares
declaredPaths(d) ==
    IF d.node = "FuncDecl"
    THEN {<<Len(d.Recv) + 1>>} \cup bodyDeclared(d, Len(d.Recv) + 3)
    ELSE UNION {IF d.Specs[i].node = "TypeSpec" THEN {<<i, 1>>}
                ELSE {<<i, k>> : k \in 1..Len(d.Specs[i].Names)} :
                    i \in 1..Len(d.Specs)}

\* C15: an identifier that is being declared, the name of a function, of a
\* type spec, of a const or var spec or a left-hand side of an assignment,
\* is among the identifiers of the declaration and has no link, whatever
\* its name and its binding.
C15_DeclaredNotLinked ==
    pc = "formatted" =>
        \A p \in declaredPaths(decl) :
            \E k \in 1..Len(declOut.idents) :
                /\ declOut.idents[k].path = p
                /\ declOut.anchorLinks[k] = <<>>

\* func int() { T, x = v, int } has been formatted: a predeclared name and
\* a name of the page are declared
C15_Witness ==
    /\ pc = "formatted"
    /\ decl = AnchorFuncDecl(1, 2, 1, 1, <<3>>)
    /\ declaredPaths(decl) = {<<1>>, <<3, 1, 1>>, <<3, 1, 2>>}

\* identifier k is the namespace of a selector: it is bound to an import
\* and the next identifier is its sibling
namespaceAt(ids, k) ==
    /\ ids[k].id.Obj = "pkg"
    /\ k < Len(ids)
    /\ Len(ids[k].path) = Len(ids[k + 1].path)
    /\ ids[k].path[Len(ids[k].path)] = 1
    /\ ids[k + 1].path[Len(ids[k].path)] = 2
    /\ below(SubSeq(ids[k].path, 1, Len(ids[k].path) - 1), ids[k + 1].path)

\* C16: the two segments of a selector whose namespace is bound to an
\* import link to toURL(path, "") and toURL(path, symbol).
C16_BothSegments ==
    pc = "formatted" =>
        \A k \in 1..Len(declOut.idents) :
            namespaceAt(declOut.idents, k) =>
                /\ declOut.anchorLinks[k] =
                       toURL(declOut.idents[k].id.Name, <<>>)
                /\ declOut.anchorLinks[k + 1] =
                       toURL(declOut.idents[k].id.Name,
                             declOut.idents[k + 1].id.Name)

\* the anchors of the tags among the fragments htmls
tagsOf(htmls) ==
    [k \in 1..Len(SelectSeq(htmls, LAMBDA h : h.kind = "anchor")) |->
        idKind(SelectSeq(htmls, LAMBDA h : h.kind = "anchor")[k].id,
               SelectSeq(htmls, LAMBDA h : h.kind = "anchor")[k].dataKind)]

\* the anchors of the lines, line after line, that the claim gives a tag
wrapped(d, anchorLines) ==
    SelectSeq(Concat(anchorLines),
              LAMBDA ik : /\ ik.Kind \notin {"function", "type"}
                          /\ ~(d.node = "FuncDecl" /\ Len(d.Recv) > 0))

\* C17: the inline anchor tags of the output are those of the anchors
\* whose kind is neither function nor type and that do not belong to a
\* function declaration with a receiver, in their order.
C17_InlineWrappers ==
    pc = "formatted" =>
        tagsOf(declOut.htmls) = wrapped(decl, declOut.anchorLines)

\* type T interface { A() } has been formatted: the method has a tag, the
\* type has none
C17_Witness ==
    /\ pc = "formatted"
    /\ decl = AnchorTypeDecl(1, "interface", 1, <<1>>)
    /\ Concat(declOut.anchorLines) =
           <<idKind(<<"T">>, "type"), idKind(<<"T", ".", "A">>, "method")>>
    /\ tagsOf(declOut.htmls) = <<idKind(<<"T", ".", "A">>, "method")>>

\* s holds a character other than a letter, a digit, _ or .
malformed(s) ==
    \E k \in 1..Len(s) : s[k] \notin Letter \cup Digit \cup {"_", "."}

\* the name of the last identifier of the type expression n
lastName(n) == inspectNode(n, <<>>)[Len(inspectNode(n, <<>>))].id.Name

\* the names the anchor IDs of the declaration d are built of
anchorNames(d) ==
    IF d.node = "FuncDecl"
    THEN {d.Name.Name}
         \cup (IF Len(d.Recv) > 0 THEN {lastName(d.Recv[1].Type)} ELSE {})
    ELSE IF d.Tok = "type"
    THEN {d.Specs[1].Name.Name}
         \cup UNION {{f.Names[k].Name : k \in 1..Len(f.Names)}
                     \cup (IF f.Names = <<>> /\ d.Specs[1].Type.node = "StructType"
                           THEN {lastName(f.Type)} ELSE {}) :
                         f \in {d.Specs[1].Type.Fields[i] :
                                   i \in 1..Len(d.Specs[1].Type.Fields)}}
    ELSE UNION {{d.Specs[i].Names[k].Name : k \in 1..Len(d.Specs[i].Names)} :
                   i \in 1..Len(d.Specs)}

\* C19: the call panics, and emits nothing, exactly when a name an anchor
\* ID is built of holds a character other than a letter, a digit, _ or .;
\* otherwise no anchor point and no tag of the output has a malformed ID.
C19_SafeIDs ==
    /\ pc = "panic" =>
           /\ declOut = <<>>
           /\ \E s \in anchorNames(decl) : malformed(s)
    /\ pc = "formatted" =>
           /\ \A s \in anchorNames(decl) : ~malformed(s)
           /\ \A k \in 1..Len(declOut.anchorPoints) :
                  ~malformed(declOut.anchorPoints[k].ID)
           /\ \A k \in 1..Len(declOut.htmls) :
                  declOut.htmls[k].kind = "anchor" =>
                      ~malformed(declOut.htmls[k].id)

\* type T struct { a-b int } made the call panic
C19_Witness ==
    /\ pc = "panic"
    /\ decl = AnchorTypeDecl(1, "struct", 1, <<9>>)
    /\ declOut = <<>>

-----------------------------------------------------------------------------
(* Concurrent calls of declHTML on one Renderer (linkify.go:78-122), one   *)
(* call for each unit of the page.  The locals of a call are its own; the  *)
(* field r.links is the Renderer's.  The statement                         *)
(*     r.links = append(r.links, parseLinks(blk.lines)...)                 *)
(* reads r.links and then writes it, with nothing that orders it against   *)
(* the other calls, so it is two steps here.  decl is nil in these calls;  *)
(* formatDeclHTML reads and rewrites the tree of its own declaration only. *)

MaxCalls == 2
MaxUnitBlocks == 3

UnitBodies == {Paragraph(<<LinkLine>>), Paragraph(<<TextLine>>)}

\* the blocks of the doc comment of a unit, the first of them no heading
UnitBlocks ==
    {<<>>} \cup
    UNION { {<<b>> \o t : b \in UnitBodies,
                          t \in [1..n -> UnitBodies \cup HeadingBlocks]} :
            n \in 0..(MaxUnitBlocks - 1) }

\* the state of a call: its arguments, its locals, the value of r.links
\* its append has read, and where it is: in the loop, between the read
\* and the write of r.links, or returned
Call(blocks, extract, idx, in, es, read, at) ==
    [blocks |-> blocks, extract |-> extract, idx |-> idx, inLinks |-> in,
     els |-> es, read |-> read, at |-> at]

InitRace ==
    /\ \E b \in [1..MaxCalls -> UnitBlocks], e \in [1..MaxCalls -> BOOLEAN] :
           thr = [t \in 1..MaxCalls |->
                     Call(b[t], e[t], 0, FALSE, <<>>, <<>>, "loop")]
    /\ rlinks = <<>>
    /\ docBlocks = <<>> /\ extractLinks = FALSE /\ docIdx = 0
    /\ inLinks = FALSE /\ els = <<>>
    /\ limits = <<>> /\ rewOut = <<>> /\ exSrc = <<>> /\ codeOut = <<>>
    /\ TreeIdle
    /\ LineIdle /\ LinkIdle /\ BlocksIdle /\ DeclIdle
    /\ pc = "race"

\* the block the loop of call c is at
nextBlock(c) == c.blocks[c.idx + 1]

\* the locals of call c and the value v of r.links, as the loop body
\* takes them
callState(c, v) == [inLinks |-> c.inLinks, els |-> c.els, links |-> v]

inLoop(t) == pc = "race" /\ thr[t].at = "loop" /\ thr[t].idx < Len(thr[t].blocks)

RaceUnchanged ==
    UNCHANGED <<docBlocks, extractLinks, docIdx, inLinks, els, limits, rewOut,
                exSrc, codeOut, lineVars, linkVars, treeVars, blockVars, declVars, pc>>

\* case *heading of call t
RaceHeading(t) ==
    /\ inLoop(t)
    /\ nextBlock(thr[t]).type = "heading"
    /\ thr' = [thr EXCEPT ![t] =
                  Call(@.blocks, @.extract, @.idx + 1,
                       caseHeading(nextBlock(@), callState(@, <<>>), @.extract).inLinks,
                       caseHeading(nextBlock(@), callState(@, <<>>), @.extract).els,
                       <<>>, "loop")]
    /\ UNCHANGED rlinks
    /\ RaceUnchanged

\* case *paragraph of call t outside the links
RaceParagraph(t) ==
    /\ inLoop(t)
    /\ nextBlock(thr[t]).type = "paragraph"
    /\ ~thr[t].inLinks
    /\ thr' = [thr EXCEPT ![t] =
                  Call(@.blocks, @.extract, @.idx + 1, @.inLinks,
                       caseParagraph(nextBlock(@), callState(@, <<>>), FALSE).els,
                       <<>>, "loop")]
    /\ UNCHANGED rlinks
    /\ RaceUnchanged

\* case *paragraph of call t in the links: append reads r.links
RaceRead(t) ==
    /\ inLoop(t)
    /\ nextBlock(thr[t]).type = "paragraph"
    /\ thr[t].inLinks
    /\ thr' = [thr EXCEPT ![t].read = rlinks, ![t].at = "append"]
    /\ UNCHANGED rlinks
    /\ RaceUnchanged

\* the assignment of what append returned to r.links
RaceWrite(t) ==
    /\ pc = "race"
    /\ thr[t].at = "append"
    /\ rlinks' = caseParagraph(nextBlock(thr[t]),
                               callState(thr[t], thr[t].read), FALSE).links
    /\ thr' = [thr EXCEPT ![t].idx = @ + 1, ![t].read = <<>>, ![t].at = "loop"]
    /\ RaceUnchanged

\* the loop of call t is over
RaceReturn(t) ==
    /\ pc = "race"
    /\ thr[t].at = "loop"
    /\ thr[t].idx = Len(thr[t].blocks)
    /\ thr' = [thr EXCEPT ![t].at = "done"]
    /\ UNCHANGED rlinks
    /\ RaceUnchanged

NextRace ==
    \E t \in 1..MaxCalls :
        \/ RaceHeading(t)
        \/ RaceParagraph(t)
        \/ RaceRead(t)
        \/ RaceWrite(t)
        \/ RaceReturn(t)

SpecRace == InitRace /\ [][NextRace]_vars

\* what call t does next to r.links
accessOf(t) ==
    IF thr[t].at = "append" THEN "write"
    ELSE IF thr[t].at = "loop" /\ thr[t].idx < Len(thr[t].blocks)
            /\ nextBlock(thr[t]).type = "paragraph" /\ thr[t].inLinks
    THEN "read"
    ELSE "none"

\* C20: no call is about to write state of the Renderer that another call
\* running at the same time is about to read or to write.
C20_NoSharedWrite ==
    pc = "race" =>
        \A t, u \in 1..MaxCalls :
            t /= u => ~(accessOf(t) = "write" /\ accessOf(u) /= "none")

-----------------------------------------------------------------------------
(* The hotlinking switch and the text of the fragments (linkify.go:295-338). *)

\* the quote characters counted before fragment k
QuotesBefore(k) == NumQuoteChars(Take(scanned, lineOut[k].at))

\* fragment k is an identifier match that may be linked: the characters
\* around it are allowed and the quotes before it are balanced
Eligible(k) ==
    ~forbidLinking(BoundaryBefore(k), ByteAt(EndOf(k)), QuotesBefore(k))

\* the fragments with every delegated identifier escaped as plain text
AsPlain(frags) ==
    [k \in DOMAIN frags |->
        IF frags[k].kind = "resolved"
        THEN Fragment("plain", frags[k].text, <<>>, frags[k].at)
        ELSE frags[k]]

\* C22: an identifier match is delegated to the resolver only when it is
\* eligible, hotlinking is enabled and a resolver is supplied, and every
\* such match is delegated; when hotlinking is disabled or no resolver is
\* supplied every identifier match is escaped plain text; the URL and RFC
\* links are the same whatever the hotlinking setting and the resolver.
C22_Hotlinking ==
    pc = "done" =>
        /\ \A k \in FragmentsOf("resolved") :
               Eligible(k) /\ ~disableHotlinking /\ hasIdr
        /\ \A k \in FragmentsOf("plain") :
               ~Eligible(k) \/ disableHotlinking \/ ~hasIdr
        /\ \A noHot, idr \in BOOLEAN :
               AsPlain(formatLineHTML(line, noHot, idr)) = AsPlain(lineOut)

\* C22 witness: with hotlinking disabled, an eligible identifier is
\* escaped plain text on a line that also carries a URL or RFC link.
C22_Witness ==
    /\ pc = "done" /\ disableHotlinking /\ hasIdr
    /\ \E k \in FragmentsOf("plain") : Eligible(k)
    /\ FragmentsOf("link") /= {}

\* the text of the fragments, in order
TextOf(frags) == Flatten([k \in DOMAIN frags |-> frags[k].text])

\* C23: the text of the fragments, concatenated in order, is the
\* quote-converted line: nothing is dropped and nothing is emitted twice,
\* the characters cut off a URL match follow its link, and every RFC match
\* is emitted.
C23_TextKept ==
    pc = "done" => TextOf(lineOut) = convertQuotes(line)

\* C23 witness: the closer cut off a URL match is the text right after its
\* link, on a line that also carries an RFC link.
C23_Witness ==
    /\ pc = "done"
    /\ \E k \in URLLinks :
           /\ k < Len(lineOut)
           /\ lineOut[k + 1].kind = "escaped"
           /\ lineOut[k + 1].at = EndOf(k)
           /\ FirstByte(lineOut[k + 1].text[1]) \in {")", "]"}
    /\ RFCLinks /= {}

-----------------------------------------------------------------------------
(* The scan loop of formatLineHTML, one iteration at a time                *)
(* (linkify.go:267-343).  lineLoop holds the locals of the loop: rest is  *)
(* the line variable, base the offset of rest in the converted line.       *)

Locals(rest, base, lastChar, numQuotes) ==
    [rest |-> rest, base |-> base, lastChar |-> lastChar, numQuotes |-> numQuotes]

\* m0, m1 of linkify.go:269-272
matchOf(ln) ==
    IF FindStringIndex(ln)[1] >= 0 THEN FindStringIndex(ln) ELSE <<Len(ln), Len(ln)>>

\* linkify.go:273-278: the locals after the text before the match
afterNonWord(l, m0) ==
    IF m0 > 0
    THEN Locals(l.rest, l.base, LastByte(Take(l.rest, m0)),
                l.numQuotes + countQuotes(Take(l.rest, m0)))
    ELSE l

nonWordFragment(l, m0) ==
    IF m0 > 0 THEN <<Fragment("escaped", Take(l.rest, m0), <<>>, l.base)>> ELSE <<>>

\* linkify.go:279-340: the fragments of the word and the final m1
wordOf(l, m0, m1, noHot, idr) ==
    IF m1 > m0
    THEN wordCase(l.rest, m0, m1, l.base + m0, l.lastChar, nextCharAt(l.rest, m1),
                  l.numQuotes, noHot, idr)
    ELSE [m1 |-> m1, out |-> <<>>]

\* linkify.go:339-341: numQuotes += countQuotes(word); line = line[m1:]
afterWord(l, m0, m1) ==
    Locals(Drop(l.rest, m1), l.base + m1, l.lastChar,
           l.numQuotes + countQuotes(Slice(l.rest, m0, m1)))

\* one iteration of the loop on the locals l (linkify.go:268-342): the
\* fragments it appends and the locals it leaves
iteration(l, noHot, idr) ==
    LET m == matchOf(l.rest)
        a == afterNonWord(l, m[1])
        c == wordOf(a, m[1], m[2], noHot, idr)
    IN  [out |-> nonWordFragment(l, m[1]) \o c.out,
         next |-> afterWord(a, m[1], c.m1)]

InitScan ==
    /\ TreeIdle
    /\ LineIdle /\ LinkIdle /\ DocIdle /\ BlocksIdle /\ DeclIdle /\ UnitIdle
    /\ pc = "call"

\* the call r.formatLineHTML(line, idr) up to the loop (linkify.go:258-267)
ScanEnter ==
    /\ pc = "call"
    /\ \E n \in 0..MaxTokens :
          \E f \in [1..n -> 1..Len(LineTokens)] : line' = LineOf(f)
    /\ disableHotlinking' \in BOOLEAN
    /\ hasIdr' \in BOOLEAN
    /\ lineLoop' = Locals(convertQuotes(line'), 0, "NUL", 0)
    /\ pc' = "scan"
    /\ UNCHANGED lineOut
    /\ UNCHANGED <<linkVars, treeVars, docVars, blockVars, declVars, unitVars>>

\* one iteration of the loop
ScanStep ==
    /\ pc = "scan"
    /\ Len(lineLoop.rest) > 0
    /\ lineOut' = lineOut \o iteration(lineLoop, disableHotlinking, hasIdr).out
    /\ lineLoop' = iteration(lineLoop, disableHotlinking, hasIdr).next
    /\ UNCHANGED <<line, disableHotlinking, hasIdr, pc>>
    /\ UNCHANGED <<linkVars, treeVars, docVars, blockVars, declVars, unitVars>>

\* the loop ends and the fragments are returned
ScanReturn ==
    /\ pc = "scan"
    /\ Len(lineLoop.rest) = 0
    /\ pc' = "scanned"
    /\ UNCHANGED lineVars
    /\ UNCHANGED <<linkVars, treeVars, docVars, blockVars, declVars, unitVars>>

NextScan == ScanEnter \/ ScanStep \/ ScanReturn

SpecScan == InitScan /\ [][NextScan]_vars

\* the iterations, taken one at a time, append the fragments of the call
ScanIsFormatLineHTML ==
    pc = "scanned" => lineOut = formatLineHTML(line, disableHotlinking, hasIdr)

\* C26: every iteration of the scan loop leaves a strictly shorter rest of
\* the line, also after the cuts and corrections of a URL match, so that
\* the loop ends after at most as many iterations as the line has
\* characters.
C26_Progress ==
    [][ScanStep => Len(lineLoop'.rest) < Len(lineLoop.rest)]_vars

\* C26 witness: the call has returned after an iteration whose URL match
\* was shortened by the balancing loop: the opener it gave up is the text
\* right after the link.
C26_Witness ==
    /\ pc = "scanned"
    /\ \E k \in URLLinks :
           /\ k < Len(lineOut)
           /\ lineOut[k + 1].kind = "escaped"
           /\ lineOut[k + 1].at = EndOf(k)
           /\ FirstByte(lineOut[k + 1].text[1]) \in {"(", "["}

-----------------------------------------------------------------------------
(* The anchor tags of the output of formatDeclHTML (linkify.go:467-490).   *)

\* the number of fragments of kind knd among htmls
NumTags(htmls, knd) == Len(SelectSeq(htmls, LAMBDA h : h.kind = knd))

\* C24: the output of formatDeclHTML holds as many closing </span> tags of
\* anchors as opening anchor tags.
C24_BalancedAnchors ==
    pc = "formatted" =>
        NumTags(declOut.htmls, "close") = NumTags(declOut.htmls, "anchor")

\* how often the anchor a stands on the lines
Occurrences(anchorLines, a) ==
    Cardinality({k \in 1..Len(Concat(anchorLines)) : Concat(anchorLines)[k] = a})

AnchorsOf(anchorLines) ==
    {Concat(anchorLines)[k] : k \in 1..Len(Concat(anchorLines))}

\* the lines that carry anchors
AnchoredLines(anchorLines) ==
    {k \in 1..Len(anchorLines) : Len(anchorLines[k]) > 0}

\* C25: the hoist pass keeps every anchor as often as the scan has placed
\* it, keeps the anchors of one line together and apart from those of the
\* other lines, and leaves them on the line of their identifiers or moves
\* them to an earlier line.
C25_HoistUpward ==
    pc = "formatted" =>
        /\ Len(declOut.anchorLines) = Len(declOut.scanned)
        /\ AnchorsOf(declOut.anchorLines) = AnchorsOf(declOut.scanned)
        /\ \A a \in AnchorsOf(declOut.scanned) :
               Occurrences(declOut.anchorLines, a) = Occurrences(declOut.scanned, a)
        /\ Cardinality(AnchoredLines(declOut.anchorLines)) =
               Cardinality(AnchoredLines(declOut.scanned))
        /\ \A k \in AnchoredLines(declOut.anchorLines) :
               \E n \in AnchoredLines(declOut.scanned) :
                   n >= k /\ declOut.scanned[n] = declOut.anchorLines[k]

\* C25 witness: anchors have moved up over two comment lines while those
\* of another line, which ends in a comment, have stayed.
C25_Witness ==
    /\ pc = "formatted"
    /\ \E k \in AnchoredLines(declOut.scanned) :
           /\ k > 2
           /\ declOut.anchorLines[k] = <<>>
           /\ declOut.anchorLines[k - 2] = declOut.scanned[k]
    /\ \E k \in AnchoredLines(declOut.scanned) :
           /\ declOut.anchorLines[k] = declOut.scanned[k]
           /\ declOut.lineTypes[k] = BitOr(codeType, commentType)

-----------------------------------------------------------------------------
(* Two calls of formatDeclHTML in succession on one declaration            *)
(* (linkify.go:364-393).  rewriteDecl changed the tree in place during the *)
(* first call, and the second call is given the tree as the first left it. *)
(* rewOut keeps out.Decl, the fragments, of each call.                     *)

MaxFormats == 2

InitAgain ==
    /\ IsDecl(decl)
    /\ declOut = <<>>
    /\ rewOut = <<>>
    /\ limits = <<>> /\ exSrc = <<>> /\ codeOut = <<>> /\ thr = <<>>
    /\ TreeIdle
    /\ LineIdle /\ LinkIdle /\ DocIdle /\ BlocksIdle
    /\ pc = "again"

\* one more call of formatDeclHTML(decl, idr)
FormatAgain ==
    /\ pc = "again"
    /\ Len(rewOut) < MaxFormats
    /\ declOut' = formatDeclHTML(decl)
    /\ rewOut' = Append(rewOut, declOut'.htmls)
    /\ decl' = rewriteDecl(decl, maxStringSize, maxElements)
    /\ UNCHANGED <<limits, exSrc, codeOut, thr, pc>>
    /\ UNCHANGED <<lineVars, linkVars, treeVars, docVars, blockVars>>

NextAgain == FormatAgain

SpecAgain == InitAgain /\ [][NextAgain]_vars

\* C21: the second of two calls in succession on the same declaration
\* returns the HTML the first returned.
C21_SameHTML ==
    (pc = "again" /\ Len(rewOut) >= 2) => rewOut[2] = rewOut[1]

-----------------------------------------------------------------------------
(* The package tree (embed.go:150-277).  A *packageInfo is the record of   *)
(* its fields; packages is a function from the directory names to the      *)
(* children, with the empty domain for a nil map.                          *)

packageInfo(name, impPath, dirPath, files, packages) ==
    [name |-> name, impPath |-> impPath, dirPath |-> dirPath, files |-> files,
     packages |-> packages]

\* new(packageInfo) (embed.go:178)
newPackageInfo == packageInfo(<<>>, <<>>, <<>>, <<>>, <<>>)

\* a nil *packageInfo
nilPackage == [nil |-> TRUE]

\* strings.TrimPrefix(s, p)
TrimPrefix(s, p) == IF HasPrefixAt(s, 0, p) THEN Drop(s, Len(p)) ELSE s

\* the elements of s between its slashes
RECURSIVE splitSlash(_)
splitSlash(s) ==
    IF IndexByte(s, "/") < 0 THEN <<s>>
    ELSE <<Take(s, IndexByte(s, "/"))>> \o splitSlash(Drop(s, IndexByte(s, "/") + 1))

\* the elements joined with slashes
RECURSIVE joinSlash(_)
joinSlash(elems) ==
    IF Len(elems) = 0 THEN <<>>
    ELSE IF Len(elems) = 1 THEN elems[1]
    ELSE elems[1] \o <<"/">> \o joinSlash(Tail(elems))

\* path.Clean on the elements of a path that is not rooted: empty elements
\* and . are dropped, .. drops the element before it or stays at the start
RECURSIVE cleanElems(_, _)
cleanElems(elems, done) ==
    IF Len(elems) = 0 THEN done
    ELSE IF Head(elems) = <<>> \/ Head(elems) = <<".">>
    THEN cleanElems(Tail(elems), done)
    ELSE IF Head(elems) = <<".", ".">> /\ Len(done) > 0
            /\ done[Len(done)] /= <<".", ".">>
    THEN cleanElems(Tail(elems), Take(done, Len(done) - 1))
    ELSE cleanElems(Tail(elems), Append(done, Head(elems)))

\* path.Clean(s) for a path s that is not rooted
pathClean(s) ==
    IF cleanElems(splitSlash(s), <<>>) = <<>> THEN <<".">>
    ELSE joinSlash(cleanElems(splitSlash(s), <<>>))

\* path.Join(a, b): the empty elements are ignored, the result is cleaned,
\* and it is empty when both are empty
pathJoin(a, b) ==
    IF a = <<>> /\ b = <<>> THEN <<>>
    ELSE IF a = <<>> THEN pathClean(b)
    ELSE IF b = <<>> THEN pathClean(a)
    ELSE pathClean(a \o <<"/">> \o b)

\* the split at the first slash (embed.go:224-228, 248-253)
firstDir(s) ==
    IF IndexByte(s, "/") >= 0
    THEN [dirName |-> Take(s, IndexByte(s, "/")),
          suffix |-> Drop(s, IndexByte(s, "/") + 1)]
    ELSE [dirName |-> s, suffix |-> <<>>]

\* a variant of childOf that always makes a new child
childOf_Fresh(n, dirName) ==
    packageInfo(<<>>, pathJoin(n.impPath, dirName), <<>>, <<>>, <<>>)

\* root.packages[dirName], made when it is missing (embed.go:229-236)
childOf(n, dirName) ==
    IF dirName \in DOMAIN n.packages THEN n.packages[dirName]
    ELSE packageInfo(<<>>, pathJoin(n.impPath, dirName), <<>>, <<>>, <<>>)

\* a variant of assign that keeps the files of a child that has some
assign_KeepFiles(child, pkg) ==
    [child EXCEPT !.name = pkg.name, !.dirPath = pkg.dirPath,
                  !.files = IF child.files = <<>> THEN pkg.files ELSE @]

\* embed.go:238-240
assign(child, pkg) ==
    [child EXCEPT !.name = pkg.name, !.dirPath = pkg.dirPath,
                  !.files = pkg.files]

\* root.packages[dirName] = child
withChild(n, dirName, child) ==
    [n EXCEPT !.packages =
        [d \in DOMAIN n.packages \cup {dirName} |->
            IF d = dirName THEN child ELSE n.packages[d]]]

\* root.merge(pkg) (embed.go:221-244): the tree below n afterwards
RECURSIVE merge(_, _)
mergeInto(n, pkg, f) ==
    IF f.suffix = <<>>
    THEN withChild(n, f.dirName, assign(childOf(n, f.dirName), pkg))
    ELSE withChild(n, f.dirName, merge(childOf(n, f.dirName), pkg))

merge(n, pkg) ==
    mergeInto(n, pkg,
              firstDir(TrimPrefix(TrimPrefix(pkg.impPath, n.impPath), <<"/">>)))

\* pkg.resolve(impPath) (embed.go:246-260)
RECURSIVE resolve(_, _)
resolve(pkg, impPath) ==
    IF Len(impPath) = 0 THEN pkg
    ELSE IF firstDir(impPath).dirName \in DOMAIN pkg.packages
    THEN resolve(pkg.packages[firstDir(impPath).dirName], firstDir(impPath).suffix)
    ELSE nilPackage

\* the characters of the names in the order of their bytes
ByteOrder ==
    <<"-", ".", "/", "0", "1", "2", "3", "4", "5", "6", "7", "8", "9",
      "A", "B", "C", "D", "E", "F", "G", "H", "I", "J", "K", "L", "M",
      "N", "O", "P", "Q", "R", "S", "T", "U", "V", "W", "X", "Y", "Z", "_",
      "a", "b", "c", "d", "e", "f", "g", "h", "i", "j", "k", "l", "m",
      "n", "o", "p", "q", "r", "s", "t", "u", "v", "w", "x", "y", "z">>

byteLess(c, d) ==
    \E i, j \in 1..Len(ByteOrder) : ByteOrder[i] = c /\ ByteOrder[j] = d /\ i < j

\* s < t for Go strings
RECURSIVE stringLess(_, _)
stringLess(s, t) ==
    IF Len(t) = 0 THEN FALSE
    ELSE IF Len(s) = 0 THEN TRUE
    ELSE IF Head(s) = Head(t) THEN stringLess(Tail(s), Tail(t))
    ELSE byteLess(Head(s), Head(t))

\* a variant of sortStrings that sorts in descending order
RECURSIVE sortStrings_Descending(_)
sortStrings_Descending(names) ==
    IF names = {} THEN <<>>
    ELSE LET last == CHOOSE x \in names :
                         \A y \in names \ {x} : stringLess(y, x)
         IN  <<last>> \o sortStrings_Descending(names \ {last})

\* sort.Strings of the keys collected from the map (embed.go:266-270)
RECURSIVE sortStrings(_)
sortStrings(names) ==
    IF names = {} THEN <<>>
    ELSE LET first == CHOOSE x \in names :
                          \A y \in names \ {x} : stringLess(x, y)
         IN  <<first>> \o sortStrings(names \ {first})

\* The visit functions.  Stopper(k) logs the node and returns false at its
\* k-th call.  Archiver(k, step) is the function of archive mode
\* (main.go:116-133): it logs the node, renders it, writes the header of a
\* tar entry and then its contents, and returns true; each of the three
\* steps can fail, and then log.Fatalf ends the process.  Whether a step
\* fails is decided by the files and the writer, which are not part of the
\* tree: here step fails at the k-th call, and nothing fails when k is 0 or
\* more than the number of calls.
Stopper(k) == [kind |-> "stop", at |-> k, step |-> "return"]
Archiver(k, step) == [kind |-> "archive", at |-> k, step |-> step]

ArchiveSteps == {"renderHTML", "WriteHeader", "Write"}

indexName == <<"i","n","d","e","x",".","h","t","m","l">>

\* what a walk has done so far: the import paths logged, the names of the
\* tar entries whose header is written, the value returned, and whether
\* log.Fatalf has ended the process (the walk then returns nothing and goes
\* no further: ok is false)
WalkState(visits, entries, ok, exited) ==
    [visits |-> visits, entries |-> entries, ok |-> ok, exited |-> exited]

\* a walk with the visit function v that has come to the state st
Walked(v, st) ==
    [visitor |-> v, visits |-> st.visits, entries |-> st.entries, ok |-> st.ok,
     exited |-> st.exited]

\* the visit function of archive mode at a call where step fails: the node
\* is logged; the header is written when it is tw.Write that fails
archiveFatal(v, pkg, st) ==
    WalkState(Append(st.visits, pkg.impPath),
              IF v.step = "Write"
              THEN Append(st.entries, pathJoin(pkg.impPath, indexName))
              ELSE st.entries,
              FALSE, TRUE)

visit(v, pkg, st) ==
    IF v.kind = "archive" /\ Len(st.visits) + 1 = v.at
    THEN archiveFatal(v, pkg, st)
    ELSE IF v.kind = "archive"
    THEN WalkState(Append(st.visits, pkg.impPath),
                   Append(st.entries, pathJoin(pkg.impPath, indexName)),
                   TRUE, FALSE)
    ELSE WalkState(Append(st.visits, pkg.impPath), st.entries,
                   Len(st.visits) + 1 /= v.at, FALSE)

\* pkg.walk(visit) (embed.go:262-277)
RECURSIVE walk(_, _, _)
RECURSIVE walkNames(_, _, _, _)
walkNext(pkg, v, names, st) ==
    IF ~st.ok THEN st ELSE walkNames(pkg, v, Tail(names), st)

walkNames(pkg, v, names, st) ==
    IF Len(names) = 0 THEN st
    ELSE walkNext(pkg, v, names, walk(pkg.packages[Head(names)], v, st))

walkAfterVisit(pkg, v, st) ==
    IF ~st.ok THEN st
    ELSE walkNames(pkg, v, sortStrings(DOMAIN pkg.packages), st)

walk(pkg, v, st) == walkAfterVisit(pkg, v, visit(v, pkg, st))

-----------------------------------------------------------------------------
(* The packages merged: every import path of at most MaxDepth names, in    *)
(* NumVersions versions each; at most MaxMerges calls of merge.            *)

MaxDepth == 2
MaxMerges == 3
MaxStop == 3
NumVersions == 2

DirNames == {<<"a">>, <<"a", "-", "b">>, <<"b">>}

RECURSIVE ImportPaths(_)
ImportPaths(depth) ==
    IF depth = 0 THEN {}
    ELSE DirNames \cup ImportPaths(depth - 1)
         \cup {p \o <<"/">> \o d : p \in ImportPaths(depth - 1), d \in DirNames}

\* version k of the package with import path p, as go list reports it
PackageOf(p, k) ==
    IF k = 1
    THEN packageInfo(splitSlash(p)[Len(splitSlash(p))], p,
                     <<"/", "s", "/">> \o p, <<<<"x", ".", "g", "o">>>>, <<>>)
    ELSE packageInfo(<<"m", "a", "i", "n">>, p, <<"/", "t", "/">> \o p,
                     <<<<"x", ".", "g", "o">>, <<"y", ".", "g", "o">>>>, <<>>)

Packages == {PackageOf(p, k) : p \in ImportPaths(MaxDepth), k \in 1..NumVersions}

InitTree ==
    /\ root = newPackageInfo
    /\ merged = <<>>
    /\ resolved = <<>>
    /\ walked = <<>>
    /\ LineIdle /\ LinkIdle /\ DocIdle /\ BlocksIdle /\ DeclIdle /\ UnitIdle
    /\ pc = "load"

TreeUnchanged ==
    UNCHANGED <<lineVars, linkVars, docVars, blockVars, declVars, unitVars>>

\* root.merge(pkg) in the loop of loadPackages (embed.go:179-217)
Merge ==
    /\ pc = "load"
    /\ Len(merged) < MaxMerges
    /\ \E pkg \in Packages :
           /\ root' = merge(root, pkg)
           /\ merged' = Append(merged, pkg)
    /\ UNCHANGED <<resolved, walked, pc>>
    /\ TreeUnchanged

\* root.resolve(impPath)
Resolve ==
    /\ pc = "load"
    /\ \E p \in ImportPaths(MaxDepth + 1) :
           resolved' = [impPath |-> p, node |-> resolve(root, p)]
    /\ pc' = "resolved"
    /\ UNCHANGED <<root, merged, walked>>
    /\ TreeUnchanged

\* root.walk(visit) with a visit function that returns false at some call
Walk ==
    /\ pc = "load"
    /\ \E k \in 1..MaxStop :
           walked' = Walked(Stopper(k),
                            walk(root, Stopper(k),
                                 WalkState(<<>>, <<>>, TRUE, FALSE)))
    /\ pc' = "walked"
    /\ UNCHANGED <<root, merged, resolved>>
    /\ TreeUnchanged

\* root.walk of archive mode (main.go:116-133): the walk returns, or the
\* process has ended in log.Fatalf
Archive ==
    /\ pc = "load"
    /\ \E k \in 0..MaxStop, step \in ArchiveSteps :
           /\ k = 0 => step = "renderHTML"
           /\ walked' = Walked(Archiver(k, step),
                               walk(root, Archiver(k, step),
                                    WalkState(<<>>, <<>>, TRUE, FALSE)))
    /\ pc' = IF walked'.exited THEN "exited" ELSE "archived"
    /\ UNCHANGED <<root, merged, resolved>>
    /\ TreeUnchanged

NextTree == Merge \/ Resolve \/ Walk \/ Archive

SpecTree == InitTree /\ [][NextTree]_vars

-----------------------------------------------------------------------------
(* Properties of the package tree.                                         *)

\* the nodes below n, each named by the directory names that lead to it
RECURSIVE nodesBelow(_)
nodesBelow(n) ==
    UNION {{<<d>>} \cup {<<d>> \o q : q \in nodesBelow(n.packages[d])} :
           d \in DOMAIN n.packages}

\* the node the directory names q lead to from n
RECURSIVE nodeAt(_, _)
nodeAt(n, q) == IF q = <<>> THEN n ELSE nodeAt(n.packages[Head(q)], Tail(q))

\* the import path made of the directory names q
RECURSIVE importPathOf(_)
importPathOf(q) ==
    IF Len(q) = 0 THEN <<>>
    ELSE IF Len(q) = 1 THEN q[1]
    ELSE importPathOf(Take(q, Len(q) - 1)) \o <<"/">> \o q[Len(q)]

\* the directory names of an import path
dirNamesOf(p) == IF p = <<>> THEN <<>> ELSE splitSlash(p)

\* the merges of the import path p so far
MergesOf(p) == {k \in 1..Len(merged) : merged[k].impPath = p}

LastMergeOf(p) ==
    merged[CHOOSE k \in MergesOf(p) : \A j \in MergesOf(p) : j <= k]

\* p is the import path of a directory above a merged package
DirectoryOfMerged(p) ==
    \E k \in 1..Len(merged) :
        HasPrefixAt(merged[k].impPath, 0, p \o <<"/">>)

\* C27: resolve of a merged import path returns the node with this import
\* path and with the name, dirPath and files of the most recent merge of
\* the path; the child under key d of a node n has the import path of n
\* joined with d; resolve of a path for which no node was made returns nil.
C27_RoundTrip ==
    pc = "resolved" =>
        /\ MergesOf(resolved.impPath) /= {} =>
               /\ resolved.node /= nilPackage
               /\ resolved.node.impPath = resolved.impPath
               /\ resolved.node.name = LastMergeOf(resolved.impPath).name
               /\ resolved.node.dirPath = LastMergeOf(resolved.impPath).dirPath
               /\ resolved.node.files = LastMergeOf(resolved.impPath).files
        /\ (MergesOf(resolved.impPath) = {} /\ ~DirectoryOfMerged(resolved.impPath))
               => resolved.node = nilPackage
        /\ \A q \in nodesBelow(root) :
               nodeAt(root, q).impPath = importPathOf(q)

\* C27 witness: resolve has returned the node of a package below a
\* directory that was merged twice, with different names and files.
C27_Witness ==
    /\ pc = "resolved"
    /\ Len(dirNamesOf(resolved.impPath)) = 2
    /\ \E j, k \in MergesOf(resolved.impPath) :
           /\ j < k
           /\ merged[j].name /= merged[k].name
           /\ merged[j].files /= merged[k].files
    /\ resolved.node.files = merged[Len(merged)].files

\* the packages ms merged one after the other into the tree n
RECURSIVE mergeAll(_, _)
mergeAll(ms, n) ==
    IF Len(ms) = 0 THEN n ELSE mergeAll(Tail(ms), merge(n, Head(ms)))

Orders(n) ==
    {f \in [1..n -> 1..n] : \A i, j \in 1..n : f[i] = f[j] => i = j}

DistinctPaths ==
    \A i, j \in 1..Len(merged) :
        merged[i].impPath = merged[j].impPath => i = j

\* the tree is the one every other order of the merges makes
OrderFree ==
    DistinctPaths =>
        \A f \in Orders(Len(merged)) :
            mergeAll([k \in 1..Len(merged) |-> merged[f[k]]], newPackageInfo) = root

\* q names the node of p or of a directory above it
OnTheWayTo(q, p) == Len(q) <= Len(p) /\ Take(p, Len(q)) = q

\* A step from the tree old to the tree new by the merge of a package with
\* the directory names p keeps every node, with its name, dirPath and files
\* unless it is the node of p, and with its sub-packages or one more on the
\* way to p; a node it makes is on the way to p and empty unless it is p.
Kept(old, new, p) ==
    /\ \A q \in nodesBelow(old) \cup {<<>>} :
           /\ q \in nodesBelow(new) \cup {<<>>}
           /\ q /= p =>
                  /\ nodeAt(new, q).name = nodeAt(old, q).name
                  /\ nodeAt(new, q).dirPath = nodeAt(old, q).dirPath
                  /\ nodeAt(new, q).files = nodeAt(old, q).files
           /\ DOMAIN nodeAt(old, q).packages \subseteq DOMAIN nodeAt(new, q).packages
           /\ \A d \in DOMAIN nodeAt(new, q).packages :
                  d \notin DOMAIN nodeAt(old, q).packages
                      => OnTheWayTo(Append(q, d), p)
    /\ \A q \in nodesBelow(new) \ nodesBelow(old) :
           /\ OnTheWayTo(q, p)
           /\ q /= p =>
                  /\ nodeAt(new, q).name = <<>>
                  /\ nodeAt(new, q).dirPath = <<>>
                  /\ nodeAt(new, q).files = <<>>

\* C28: merges of packages with distinct import paths make the same tree
\* in every order, and a merge changes the name, dirPath, files and
\* sub-packages of no node but the node of its import path, apart from the
\* empty directory nodes it makes on the way to it.
C28_OrderFree ==
    /\ [](pc = "load" => OrderFree)
    /\ [][merged' /= merged =>
            Kept(root, root', dirNamesOf(merged'[Len(merged')].impPath))]_vars

\* C28 witness: a package was merged after a package below it, and the
\* node below still has its files.
C28_Witness ==
    /\ pc = "load"
    /\ DistinctPaths
    /\ \E j, k \in 1..Len(merged) :
           /\ j < k
           /\ HasPrefixAt(merged[j].impPath, 0, merged[k].impPath \o <<"/">>)
           /\ resolve(root, merged[j].impPath) /= nilPackage
           /\ resolve(root, merged[j].impPath).files = merged[j].files
           /\ resolve(root, merged[k].impPath).files = merged[k].files

\* q comes before r in pre-order with the sub-packages in ascending order
\* of their names
RECURSIVE Before(_, _)
Before(q, r) ==
    IF Len(r) = 0 THEN FALSE
    ELSE IF Len(q) = 0 THEN TRUE
    ELSE IF Head(q) = Head(r) THEN Before(Tail(q), Tail(r))
    ELSE stringLess(Head(q), Head(r))

AllNodes == nodesBelow(root) \cup {<<>>}

VisitedNodes == [k \in 1..Len(walked.visits) |-> dirNamesOf(walked.visits[k])]

\* the nodes visited are the first nodes of the tree in pre-order
FirstInPreOrder ==
    /\ \A k \in 1..Len(walked.visits) :
           /\ VisitedNodes[k] \in AllNodes
           /\ nodeAt(root, VisitedNodes[k]).impPath = walked.visits[k]
    /\ \A j, k \in 1..Len(walked.visits) :
           j < k => Before(VisitedNodes[j], VisitedNodes[k])
    /\ \A q \in AllNodes :
           (\A k \in 1..Len(walked.visits) : VisitedNodes[k] /= q)
               => \A k \in 1..Len(walked.visits) : Before(VisitedNodes[k], q)

\* C29: walk visits the nodes in pre-order with the sub-packages of a node
\* in ascending order of their names, every node once; when visit returns
\* false it visits no further node and returns false, and otherwise it
\* visits every node and returns true.  Archive mode writes one index.html
\* entry per node in this order, the one of the root first; when a step of
\* it fails the process ends there, and the entries written are those of
\* the nodes before in this order.
C29_PreOrder ==
    /\ pc = "walked" =>
           /\ FirstInPreOrder
           /\ IF walked.visitor.at <= Cardinality(AllNodes)
              THEN Len(walked.visits) = walked.visitor.at /\ ~walked.ok
              ELSE Len(walked.visits) = Cardinality(AllNodes) /\ walked.ok
    /\ pc = "archived" =>
           /\ FirstInPreOrder
           /\ Len(walked.visits) = Cardinality(AllNodes)
           /\ walked.ok
           /\ walked.visits[1] = <<>>
           /\ Len(walked.entries) = Len(walked.visits)
           /\ \A k \in 1..Len(walked.visits) :
                  walked.entries[k] =
                      importPathOf(Append(VisitedNodes[k], indexName))
    /\ pc = "exited" =>
           /\ FirstInPreOrder
           /\ Len(walked.visits) = walked.visitor.at
           /\ walked.visits[1] = <<>>
           /\ Len(walked.entries) =
                  IF walked.visitor.step = "Write"
                  THEN Len(walked.visits) ELSE Len(walked.visits) - 1
           /\ \A k \in 1..Len(walked.entries) :
                  walked.entries[k] =
                      importPathOf(Append(VisitedNodes[k], indexName))

\* C29 witness: visit has returned false at the third node, a/b, and a-b,
\* which comes after it, is not visited.
C29_Witness ==
    /\ pc = "walked"
    /\ ~walked.ok
    /\ walked.visits = <<<<>>, <<"a">>, <<"a", "/", "b">>>>
    /\ <<"a", "-", "b">> \in DOMAIN root.packages

====
